---- MODULE Spec2Model ----
(***************************************************************************)
(* A model of ppt_image_inserter: the position resolver (position.py), the *)
(* slide utilities (slide_utils.py), the backup manager (backup.py) and    *)
(* the replacement workflows (workflow.py), over an abstract .pptx         *)
(* document: an ordered list of slide ids, a relationship table and, per   *)
(* slide, a layout and an ordered shape tree.                              *)
(***************************************************************************)
EXTENDS Integers, Sequences, FiniteSets, TLC

VARIABLES
    disk,      \* the presentation stored at DeckPath (what Presentation(path) loads)
    mtime,     \* modification time of the file at DeckPath
    call,      \* the operation in progress: its arguments, locals and position
    backups,   \* backup_base: category -> the file held there, or NoFile
    clock,     \* wall-clock time in seconds
    disk0,     \* history: the stored presentation when the current call started
    writes,    \* history: number of prs.save(ppt_path) executed by the current call
    ncalls,    \* history: number of calls started so far
    log,       \* history: the calls that ended, in order
    out,       \* the file at OutPath: present or not, its presentation and mtime
    batch,     \* batch_insert_images.py main(): its configuration, locals and position
    other      \* the workflow call of a second process, while that process is not running

vars == <<disk, mtime, call, backups, clock, disk0, writes, ncalls, log, out, batch, other>>

\* what the workflow functions of one process, working on DeckPath, leave alone
env == <<out, batch, other>>

(***************************************************************************)
(* Bounds of the model.                                                    *)
(***************************************************************************)
MaxPics == 3      \* shapes on a slide handed to the position resolver
MaxSlides == 2    \* slides of the initial deck
MaxImgs == 2      \* length of new_image_paths and of an explicit positions list
MaxDeck == 4      \* slides of a deck that slides are deleted from
MaxDeletes == 3   \* successive delete_slide calls in one behaviour
MaxTicks == 2     \* five-minute steps of the clock in one behaviour
MaxCalls == 2     \* successive workflow calls in one behaviour
MaxOps == 3       \* successive copy and delete calls in one behaviour
MaxBackups == 3   \* successive backup_presentation and delete_slide calls in one behaviour
MaxSpecs == 3     \* longest images list of a batch configuration

None == "None"

(***************************************************************************)
(* Lengths.  A shape's left/top/width/height are integers in EMU.  A       *)
(* position dict holds Python floats in inches; the floats that occur are  *)
(* the doubles nearest to e / 914400 for an integer e >= 0, and such a     *)
(* double is represented by the record [num |-> e].  What is computed from *)
(* it (Inches, round) is computed from the exact value of that double:     *)
(* e / 914400 rounded to 53 significant bits.                              *)
(***************************************************************************)
EMUS_PER_INCH == 914400

RECURSIVE Log2Floor(_)
Log2Floor(n) == IF n <= 1 THEN 0 ELSE 1 + Log2Floor(n \div 2)

RECURSIVE Pow2(_)
Pow2(n) == IF n <= 0 THEN 1 ELSE 2 * Pow2(n - 1)

RECURSIVE LeadingZeros(_, _)
\* for 0 < e < EMUS_PER_INCH: the z >= 1 with 2^-z <= e / 914400 < 2^-(z-1)
LeadingZeros(e, z) == IF e * Pow2(z) >= EMUS_PER_INCH THEN z ELSE LeadingZeros(e, z + 1)

\* floor(log2(e / 914400)), the binary exponent of the quotient, e > 0
QuotExp(e) ==
    IF e >= EMUS_PER_INCH THEN Log2Floor(e \div EMUS_PER_INCH)
    ELSE 0 - LeadingZeros(e, 1)

RECURSIVE ShiftMod(_, _)
\* (r * 2^k) mod 914400 by k doublings (every intermediate value < 2 * 914400)
ShiftMod(r, k) == IF k = 0 THEN r ELSE ShiftMod((2 * r) % EMUS_PER_INCH, k - 1)

\* The remainder left when e / 914400 is developed to 53 significant bits
\* (a double's mantissa; the quotient's leading bit has weight 2^QuotExp(e), so
\* the last one has weight 2^(QuotExp(e) - 52)):
\* 0 when the quotient is exact, below half of 914400 when the double is the
\* quotient rounded down, above half when it is rounded up (exactly half
\* cannot occur: 914400 = 2^5 * 28575, so a quotient with a finite binary
\* expansion has at most 5 fractional bits).
DivRemainder(e) == ShiftMod(e % EMUS_PER_INCH, 52 - QuotExp(e))

\* picture.left / EMUS_PER_INCH
EmuToInches(e) == [num |-> e]

\* int(x * 914400) for the double x nearest e / 914400 is e - 1, not e, when the
\* double lies below e / 914400 by more than half a unit in the last place of e
\* (after the multiplication): the product then rounds to the double below e.
TruncatesBelow(e) ==
    /\ e > 0
    /\ 2 * DivRemainder(e) < EMUS_PER_INCH
    /\ DivRemainder(e) > Pow2(Log2Floor(e) - QuotExp(e) - 1)

\* pptx.util.Inches(x): int(x * 914400)
Inches(x) == IF TruncatesBelow(x.num) THEN x.num - 1 ELSE x.num

TenthInch == EMUS_PER_INCH \div 10

\* round(x, 1) in tenths of an inch, for the double x nearest e / 914400:
\* Python rounds the exact value of the double correctly, ties to even.
Round1(x) ==
    LET e == x.num
        q == e \div TenthInch
        m == e % TenthInch
    IN  IF 2 * m < TenthInch THEN q
        ELSE IF 2 * m > TenthInch THEN q + 1
        ELSE IF DivRemainder(e) = 0 THEN (IF q % 2 = 0 THEN q ELSE q + 1)
        ELSE IF 2 * DivRemainder(e) < EMUS_PER_INCH THEN q
        ELSE q + 1

(***************************************************************************)
(* Shapes, slides, documents.                                              *)
(***************************************************************************)
\* kind: "picture" (shape_type PICTURE), "textbox" (text frame, no
\* placeholder binding), "placeholder" (text frame, layout-bound), "other"
\* (neither a PICTURE nor a text frame: connector, group, graphic frame...)
MkShape(kind, left, top, width, height, img, descr, title, text) ==
    [kind |-> kind, left |-> left, top |-> top, width |-> width, height |-> height,
     img |-> img, descr |-> descr, title |-> title, text |-> text]

IsPicture(shape) == shape.kind = "picture"

HasTextFrame(shape) == shape.kind \in {"textbox", "placeholder"}

Pictures(shapes) == SelectSeq(shapes, IsPicture)

\* position_info of one picture (position.py)
PositionInfo(picture) ==
    [left |-> EmuToInches(picture.left), top |-> EmuToInches(picture.top),
     width |-> EmuToInches(picture.width), height |-> EmuToInches(picture.height)]

\* the sort key lambda p: (round(p['top'], 1), round(p['left'], 1))
SortKey(p) == <<Round1(p.top), Round1(p.left)>>

\* mutant: strict comparison, an element goes before the elements of equal key
KeyLess(k1, k2) == k1[1] < k2[1] \/ (k1[1] = k2[1] /\ k1[2] < k2[2])

\* tuple comparison k1 <= k2
KeyLeq(k1, k2) == k1[1] < k2[1] \/ (k1[1] = k2[1] /\ k1[2] <= k2[2])

RECURSIVE InsertSorted(_, _)
\* p placed after every element whose key is <= its own (a stable sort's step)
InsertSorted(sorted, p) ==
    IF sorted = <<>> THEN <<p>>
    ELSE IF KeyLeq(SortKey(Head(sorted)), SortKey(p))
         THEN <<Head(sorted)>> \o InsertSorted(Tail(sorted), p)
         ELSE <<p>> \o sorted

RECURSIVE SortPositions(_)
\* positions.sort(key=...): list.sort is stable
SortPositions(ps) ==
    IF ps = <<>> THEN <<>>
    ELSE InsertSorted(SortPositions(SubSeq(ps, 1, Len(ps) - 1)), ps[Len(ps)])

\* the positions of the pictures of a shape tree, in reading order
AllImagePositions(shapes) ==
    SortPositions([i \in 1..Len(Pictures(shapes)) |-> PositionInfo(Pictures(shapes)[i])])

(***************************************************************************)
(* File system: image files and the presentation file.                     *)
(***************************************************************************)
\* image paths the caller may pass: two files that exist and two that do not,
\* one absolute and one relative of each
ExistingImages == {"/data/a.png", "b.png"}

MissingImages == {"/data/x.png", "y.png"}

ImagePaths == ExistingImages \cup MissingImages

DeckPath == "deck.pptx"

\* a second presentation file, which may or may not exist: the output_path of
\* batch_insert_images.py
OutPath == "out.pptx"

PptPaths == {DeckPath, "nofile.pptx"}

\* os.path.exists, of the presentation and of an image
PptExists(ppt_path) == ppt_path = DeckPath \/ (ppt_path = OutPath /\ out.present)

\* the presentation Presentation(ppt_path) loads, and the file's mtime
Stored(ppt_path) == IF ppt_path = OutPath THEN out.content ELSE disk

StoredMtime(ppt_path) == IF ppt_path = OutPath THEN out.mtime ELSE mtime

ImageExists(img_path) == img_path \in ExistingImages

\* os.path.isabs
IsAbs(img_path) == img_path \in {"/data/a.png", "/data/x.png"}

\* os.path.basename
Basename(img_path) ==
    CASE img_path = "/data/a.png" -> "a.png"
      [] img_path = "/data/x.png" -> "x.png"
      [] OTHER -> img_path

(***************************************************************************)
(* Slide layouts and what Slides.add_slide clones from them.               *)
(***************************************************************************)
Layouts == {"Blank", "TitleOnly"}

\* the placeholders add_slide clones from the layout onto the new slide
\* (SlideShapes.clone_layout_placeholders): text-frame shapes, geometry
\* inherited from the layout
LayoutPlaceholders(layout) ==
    IF layout = "TitleOnly"
    THEN <<MkShape("placeholder", 0, 0, 0, 0, None, "", "", <<>>)>>
    ELSE <<>>

(***************************************************************************)
(* The presentation: prs.slides._sldIdLst is the ordered list of rIds,     *)
(* prs.part.rels maps an rId to its slide part.                            *)
(***************************************************************************)
MkSlide(layout, shapes) == [layout |-> layout, shapes |-> shapes]

NumSlides(prs) == Len(prs.sldIdLst)

\* prs.slides[slide_index], slide_index 0-based
SlideAt(prs, slide_index) == prs.rels[prs.sldIdLst[slide_index + 1]]

\* the slides in presentation order
SlidesOf(prs) == [i \in 1..NumSlides(prs) |-> prs.rels[prs.sldIdLst[i]]]

ValidIndex(prs, slide_index) == slide_index >= 0 /\ slide_index < NumSlides(prs)

\* _Relationships._next_rId: the first unused number, filling gaps
NextRId(prs) == CHOOSE r \in 1..(Cardinality(DOMAIN prs.rels) + 1) :
                    /\ r \notin DOMAIN prs.rels
                    /\ \A q \in 1..(r - 1) : q \in DOMAIN prs.rels

\* prs.slides.add_slide(layout): a new slide part, related under a fresh rId,
\* holding clones of the layout's placeholders, its id appended to _sldIdLst
add_slide(prs, layout) ==
    LET rId == NextRId(prs)
    IN  [prs EXCEPT
            !.rels = [r \in DOMAIN prs.rels \cup {rId} |->
                        IF r = rId THEN MkSlide(layout, LayoutPlaceholders(layout))
                        ELSE prs.rels[r]],
            !.sldIdLst = Append(prs.sldIdLst, rId)]

\* the shapes of the slide under rId replaced
WithShapes(prs, rId, shapes) == [prs EXCEPT !.rels[rId].shapes = shapes]

\* mutant: the copy is inserted right after its source in the slide ordering
duplicate_slide_in_place(prs, slide_index) ==
    LET source == SlideAt(prs, slide_index)
        rId == NextRId(prs)
    IN  [prs EXCEPT
            !.rels = [r \in DOMAIN prs.rels \cup {rId} |->
                        IF r = rId
                        THEN MkSlide(source.layout,
                                     LayoutPlaceholders(source.layout) \o source.shapes)
                        ELSE prs.rels[r]],
            !.sldIdLst = SubSeq(prs.sldIdLst, 1, slide_index + 1) \o <<rId>> \o
                         SubSeq(prs.sldIdLst, slide_index + 2, Len(prs.sldIdLst))]

\* duplicate_slide past its index check: add_slide with the source's layout,
\* then a deep copy of every source shape appended to the new shape tree
duplicate_slide(prs, slide_index) ==
    LET source == SlideAt(prs, slide_index)
        added == add_slide(prs, source.layout)
        rId == added.sldIdLst[Len(added.sldIdLst)]
    IN  WithShapes(added, rId, added.rels[rId].shapes \o source.shapes)

RECURSIVE remove_first_picture(_)
\* mutant: the loop stops after the first picture it removed
remove_first_picture(shapes) ==
    IF shapes = <<>> THEN <<>>
    ELSE IF Head(shapes).kind = "picture" THEN Tail(shapes)
    ELSE <<Head(shapes)>> \o remove_first_picture(Tail(shapes))

\* remove_pictures_from_slide: the shape tree without its PICTURE shapes
remove_pictures_from_slide(shapes) == SelectSeq(shapes, LAMBDA sh : ~IsPicture(sh))

\* mutant: only free text boxes are removed, placeholders stay
remove_text_boxes_from_slide(shapes) ==
    SelectSeq(shapes, LAMBDA sh : sh.kind # "textbox")

\* pictures_removed, the count remove_pictures_from_slide returns: one per
\* PICTURE shape met in list(slide.shapes)
pictures_removed(shapes) == Len(SelectSeq(shapes, IsPicture))

\* remove_all_text_from_slide: without the text-frame shapes that are no PICTURE
remove_all_text_from_slide(shapes) ==
    SelectSeq(shapes, LAMBDA sh : ~(HasTextFrame(sh) /\ ~IsPicture(sh)))

\* shapes.add_picture(img_path, Inches(left), Inches(top), width=, height=):
\* a picture appended to the shape tree; python-pptx sets its descr to the
\* image's file name
add_picture(shapes, img_path, pos) ==
    Append(shapes, MkShape("picture", Inches(pos.left), Inches(pos.top),
                           Inches(pos.width), Inches(pos.height),
                           img_path, Basename(img_path), "", <<>>))

\* cNvPr.set("descr", img_path); cNvPr.set("title", os.path.basename(img_path))
\* on the picture just added (the last shape)
store_metadata_on_last(shapes, img_path) ==
    [shapes EXCEPT ![Len(shapes)].descr = img_path,
                   ![Len(shapes)].title = Basename(img_path)]

\* get_all_image_positions past its existence check: a fresh load of the file
get_all_image_positions(stored, slide_index) ==
    AllImagePositions(SlideAt(stored, slide_index).shapes)

(***************************************************************************)
(* The visible label (_add_text_label).                                    *)
(***************************************************************************)
BaseDirs == {None, "/data"}

\* os.path.relpath(p, base_dir).replace('\\', '/') for the absolute paths
RelPath(p, base_dir) ==
    CASE p = "/data/a.png" /\ base_dir = "/data" -> "a.png"
      [] p = "/data/x.png" /\ base_dir = "/data" -> "x.png"
      [] OTHER -> p

\* mutant: every path is shown as passed
RelVerbatim(p, base_dir) == p

\* _rel(p): relative to base_dir only for an absolute path and a given base_dir
Rel(p, base_dir) == IF base_dir # None /\ IsAbs(p) THEN RelPath(p, base_dir) ELSE p

\* label_text, one line per path
LabelLines(image_paths, base_dir) ==
    [i \in 1..Len(image_paths) |-> Rel(image_paths[i], base_dir)]

\* the text box of the label in the bottom-right corner: LABEL_WIDTH 5.0 in,
\* LABEL_MARGIN 0.3 in, 0.13 in per line + 0.1 in.  Its geometry is given in
\* exact EMU; the float arithmetic behind it is not developed, no property
\* reads it.
LabelShape(prs, lines) ==
    LET h == Len(lines) * ((13 * EMUS_PER_INCH) \div 100) + EMUS_PER_INCH \div 10
        margin == (3 * EMUS_PER_INCH) \div 10
        w == 5 * EMUS_PER_INCH
    IN  MkShape("textbox", prs.slide_width - margin - w, prs.slide_height - margin - h,
                w, h, None, "", "", lines)

\* _add_text_label(slide, image_paths, slide_w, slide_h, base_dir)
add_text_label(prs, shapes, image_paths, base_dir) ==
    Append(shapes, LabelShape(prs, LabelLines(image_paths, base_dir)))

(***************************************************************************)
(* A call in progress.                                                     *)
(***************************************************************************)
NoErr == [type |-> "none", path |-> "", images |-> 0, positions |-> 0]

FileNotFoundError(path) == [type |-> "FileNotFoundError", path |-> path, images |-> 0, positions |-> 0]

IndexError == [type |-> "IndexError", path |-> "", images |-> 0, positions |-> 0]

\* ValueError: the source slide has no pictures to use as position templates
NoPicturesError == [type |-> "ValueError", path |-> "no pictures", images |-> 0, positions |-> 0]

\* ValueError: number of images does not match number of positions
CountMismatchError(n_images, n_positions) ==
    [type |-> "ValueError", path |-> "count mismatch", images |-> n_images, positions |-> n_positions]

NoDoc == [sldIdLst |-> <<>>, rels |-> <<>>, slide_width |-> 0, slide_height |-> 0]

NoCall ==
    [op |-> "none", pc |-> "idle",
     ppt_path |-> None, slide_index |-> 0, images |-> <<>>,
     auto |-> FALSE, positions |-> <<>>,
     store_metadata |-> FALSE, add_label |-> FALSE, base_dir |-> None,
     loaded |-> FALSE, prs |-> NoDoc, new_slide |-> 0, new_slide_index |-> 0, i |-> 0,
     ret |-> 0, retb |-> FALSE, created |-> {}, warnings |-> 0, err |-> NoErr]

Raise(c, e) == [c EXCEPT !.pc = "raised", !.err = e]

\* mutant: the last missing path is reported instead of the first
LastMissing(image_paths) ==
    image_paths[CHOOSE i \in 1..Len(image_paths) :
                    /\ ~(image_paths[i] \in ExistingImages)
                    /\ \A j \in (i + 1)..Len(image_paths) : image_paths[j] \in ExistingImages]

\* the first path of image_paths, in list order, that does not exist
FirstMissing(image_paths) ==
    image_paths[CHOOSE i \in 1..Len(image_paths) :
                    /\ ~ImageExists(image_paths[i])
                    /\ \A j \in 1..(i - 1) : ImageExists(image_paths[j])]

AllExist(image_paths) == \A i \in 1..Len(image_paths) : ImageExists(image_paths[i])

\* prs.save(ppt_path): the file at ppt_path overwritten, its mtime now
SaveAs(ppt_path, prs) ==
    IF ppt_path = OutPath
    THEN /\ out' = [present |-> TRUE, content |-> prs, mtime |-> clock]
         /\ UNCHANGED <<disk, mtime>>
    ELSE /\ disk' = prs
         /\ mtime' = clock
         /\ UNCHANGED out

(***************************************************************************)
(* copy_slide_replace_images (workflow.py), one action per step.           *)
(***************************************************************************)
\* the call and its validation of the input files (lines 181-187).
\* a.auto is "positions is None".
CopyBegin(a) ==
    /\ call.pc = "idle"
    /\ LET c == [NoCall EXCEPT !.op = "copy_slide_replace_images",
                    !.ppt_path = a.ppt_path, !.slide_index = a.slide_index,
                    !.images = a.images, !.auto = a.auto, !.positions = a.positions,
                    !.store_metadata = a.store_metadata, !.add_label = a.add_label,
                    !.base_dir = a.base_dir]
       IN  call' = IF ~PptExists(a.ppt_path) THEN Raise(c, FileNotFoundError(a.ppt_path))
                   ELSE IF ~AllExist(a.images)
                        THEN Raise(c, FileNotFoundError(FirstMissing(a.images)))
                   ELSE [c EXCEPT !.pc = "load"]
    /\ disk0' = Stored(a.ppt_path)
    /\ writes' = 0
    /\ ncalls' = ncalls + 1
    /\ UNCHANGED <<env, disk, mtime, backups, clock, log>>

\* mutant: the wrapper does not pass base_dir on
SingleToPluralNoBaseDir(a) ==
    [ppt_path |-> a.ppt_path, slide_index |-> a.slide_index,
     images |-> <<a.new_image_path>>,
     auto |-> a.auto, positions |-> IF a.auto THEN <<>> ELSE <<a.position>>,
     store_metadata |-> a.store_metadata, add_label |-> a.add_label,
     base_dir |-> None]

\* copy_slide_replace_image (lines 119-127): positions = [position] unless
\* position is None (a.auto), the image wrapped in a list, the other
\* arguments passed on; the arguments of the plural call it returns
SingleToPlural(a) ==
    [ppt_path |-> a.ppt_path, slide_index |-> a.slide_index,
     images |-> <<a.new_image_path>>,
     auto |-> a.auto, positions |-> IF a.auto THEN <<>> ELSE <<a.position>>,
     store_metadata |-> a.store_metadata, add_label |-> a.add_label,
     base_dir |-> a.base_dir]

\* copy_slide_replace_image(ppt_path, source_slide_index, new_image_path, ...)
CopySingleBegin(a) == CopyBegin(SingleToPlural(a))

\* prs = Presentation(ppt_path) (line 190)
CopyLoad ==
    /\ call.op = "copy_slide_replace_images" /\ call.pc = "load"
    /\ call' = [call EXCEPT !.prs = Stored(call.ppt_path), !.loaded = TRUE, !.pc = "resolve"]
    /\ UNCHANGED <<env, disk, mtime, backups, clock, disk0, writes, ncalls, log>>

\* mutant: the empty result of the detection is not rejected
CopyResolveNoEmptyCheck ==
    /\ call.op = "copy_slide_replace_images" /\ call.pc = "resolve"
    /\ call' =
        IF ~call.auto THEN [call EXCEPT !.pc = "count"]
        ELSE IF ~ValidIndex(Stored(call.ppt_path), call.slide_index) THEN Raise(call, IndexError)
        ELSE [call EXCEPT !.positions = get_all_image_positions(Stored(call.ppt_path), call.slide_index),
                          !.pc = "count"]
    /\ UNCHANGED <<env, disk, mtime, backups, clock, disk0, writes, ncalls, log>>

\* positions auto-detected from the stored file when not given (lines 193-201)
CopyResolve ==
    /\ call.op = "copy_slide_replace_images" /\ call.pc = "resolve"
    /\ call' =
        IF ~call.auto THEN [call EXCEPT !.pc = "count"]
        ELSE IF ~ValidIndex(Stored(call.ppt_path), call.slide_index) THEN Raise(call, IndexError)
        ELSE LET ps == get_all_image_positions(Stored(call.ppt_path), call.slide_index)
             IN  IF ps = <<>> THEN Raise(call, NoPicturesError)
                 ELSE [call EXCEPT !.positions = ps, !.pc = "count"]
    /\ UNCHANGED <<env, disk, mtime, backups, clock, disk0, writes, ncalls, log>>

\* mutant: only too many images are rejected, zip() drops spare positions
CopyCountTruncating ==
    /\ call.op = "copy_slide_replace_images" /\ call.pc = "count"
    /\ call' =
        IF Len(call.images) > Len(call.positions)
        THEN Raise(call, CountMismatchError(Len(call.images), Len(call.positions)))
        ELSE [call EXCEPT !.pc = "duplicate"]
    /\ UNCHANGED <<env, disk, mtime, backups, clock, disk0, writes, ncalls, log>>

\* len(new_image_paths) != len(positions) (lines 204-209)
CopyCount ==
    /\ call.op = "copy_slide_replace_images" /\ call.pc = "count"
    /\ call' =
        IF Len(call.images) # Len(call.positions)
        THEN Raise(call, CountMismatchError(Len(call.images), Len(call.positions)))
        ELSE [call EXCEPT !.pc = "duplicate"]
    /\ UNCHANGED <<env, disk, mtime, backups, clock, disk0, writes, ncalls, log>>

\* new_slide = duplicate_slide(prs, source_slide_index);
\* new_slide_index = len(prs.slides) - 1 (lines 212-215)
CopyDuplicate ==
    /\ call.op = "copy_slide_replace_images" /\ call.pc = "duplicate"
    /\ call' =
        IF ~ValidIndex(call.prs, call.slide_index) THEN Raise(call, IndexError)
        ELSE LET dup == duplicate_slide(call.prs, call.slide_index)
             IN  [call EXCEPT !.prs = dup,
                              !.new_slide = dup.sldIdLst[Len(dup.sldIdLst)],
                              !.new_slide_index = NumSlides(dup) - 1,
                              !.pc = "strip"]
    /\ UNCHANGED <<env, disk, mtime, backups, clock, disk0, writes, ncalls, log>>

\* remove_pictures_from_slide(new_slide); remove_all_text_from_slide(new_slide)
\* (lines 218-221)
CopyStrip ==
    /\ call.op = "copy_slide_replace_images" /\ call.pc = "strip"
    /\ LET shapes == call.prs.rels[call.new_slide].shapes
           stripped == remove_all_text_from_slide(remove_pictures_from_slide(shapes))
       IN  call' = [call EXCEPT !.prs = WithShapes(call.prs, call.new_slide, stripped),
                                !.i = 1,
                                !.pc = IF Len(call.images) = 0 THEN "label" ELSE "insert"]
    /\ UNCHANGED <<env, disk, mtime, backups, clock, disk0, writes, ncalls, log>>

\* mutant: the presentation is saved inside the loop, after every picture
CopyInsertSaving ==
    /\ call.op = "copy_slide_replace_images" /\ call.pc = "insert"
    /\ LET img_path == call.images[call.i]
           shapes == call.prs.rels[call.new_slide].shapes
           added == add_picture(shapes, img_path, call.positions[call.i])
           saved == WithShapes(call.prs, call.new_slide, added)
       IN  /\ call' = [call EXCEPT !.prs = saved, !.i = call.i + 1,
                                   !.pc = IF call.i = Len(call.images) THEN "label" ELSE "insert"]
           /\ SaveAs(call.ppt_path, saved)
    /\ writes' = writes + 1
    /\ UNCHANGED <<batch, other, backups, clock, disk0, ncalls, log>>

\* one turn of the loop over zip(new_image_paths, positions) (lines 225-241)
CopyInsert ==
    /\ call.op = "copy_slide_replace_images" /\ call.pc = "insert"
    /\ LET img_path == call.images[call.i]
           shapes == call.prs.rels[call.new_slide].shapes
           added == add_picture(shapes, img_path, call.positions[call.i])
           stamped == IF call.store_metadata THEN store_metadata_on_last(added, img_path)
                      ELSE added
       IN  call' = [call EXCEPT !.prs = WithShapes(call.prs, call.new_slide, stamped),
                                !.i = call.i + 1,
                                !.pc = IF call.i = Len(call.images) THEN "label" ELSE "insert"]
    /\ UNCHANGED <<env, disk, mtime, backups, clock, disk0, writes, ncalls, log>>

\* the label, if requested (lines 244-247)
CopyLabel ==
    /\ call.op = "copy_slide_replace_images" /\ call.pc = "label"
    /\ LET shapes == call.prs.rels[call.new_slide].shapes
       IN  call' = [call EXCEPT
                !.prs = IF call.add_label
                        THEN WithShapes(call.prs, call.new_slide,
                                        add_text_label(call.prs, shapes, call.images, call.base_dir))
                        ELSE call.prs,
                !.pc = "save"]
    /\ UNCHANGED <<env, disk, mtime, backups, clock, disk0, writes, ncalls, log>>

\* mutant: the save re-reads the file and appends the new slide to what is
\* stored now, as a save under a lock would
CopySaveMerging ==
    /\ call.op = "copy_slide_replace_images" /\ call.pc = "save"
    /\ LET now == Stored(call.ppt_path)
           rId == NextRId(now)
           merged == [now EXCEPT
                        !.rels = [r \in DOMAIN now.rels \cup {rId} |->
                                    IF r = rId THEN call.prs.rels[call.new_slide]
                                    ELSE now.rels[r]],
                        !.sldIdLst = Append(now.sldIdLst, rId)]
       IN  SaveAs(call.ppt_path, merged)
    /\ writes' = writes + 1
    /\ call' = [call EXCEPT !.pc = "done", !.ret = call.new_slide_index]
    /\ UNCHANGED <<batch, other, backups, clock, disk0, ncalls, log>>

\* prs.save(ppt_path); return new_slide_index (lines 250-252)
CopySave ==
    /\ call.op = "copy_slide_replace_images" /\ call.pc = "save"
    /\ SaveAs(call.ppt_path, call.prs)
    /\ writes' = writes + 1
    /\ call' = [call EXCEPT !.pc = "done", !.ret = call.new_slide_index]
    /\ UNCHANGED <<batch, other, backups, clock, disk0, ncalls, log>>

(***************************************************************************)
(* get_image_position (position.py) past its existence check.              *)
(***************************************************************************)
\* mutant: image_index is checked before the slide is found to have no picture
get_image_position_index_first(stored, slide_index, image_index) ==
    IF ~ValidIndex(stored, slide_index) THEN [err |-> IndexError, pos |-> <<>>]
    ELSE LET pictures == Pictures(SlideAt(stored, slide_index).shapes)
         IN  IF image_index < 0 \/ image_index >= Len(pictures)
             THEN [err |-> IndexError, pos |-> <<>>]
             ELSE [err |-> NoErr, pos |-> <<PositionInfo(pictures[image_index + 1])>>]

\* the outcome of get_image_position(ppt_path, slide_index, image_index) on
\* the stored file: an error, or the position of the image_index-th picture
\* in shape-tree order
get_image_position(stored, slide_index, image_index) ==
    IF ~ValidIndex(stored, slide_index) THEN [err |-> IndexError, pos |-> <<>>]
    ELSE LET pictures == Pictures(SlideAt(stored, slide_index).shapes)
         IN  IF pictures = <<>>
             THEN [err |-> [type |-> "ValueError", path |-> "no pictures",
                            images |-> 0, positions |-> 0], pos |-> <<>>]
             ELSE IF image_index < 0 \/ image_index >= Len(pictures)
             THEN [err |-> IndexError, pos |-> <<>>]
             ELSE [err |-> NoErr, pos |-> <<PositionInfo(pictures[image_index + 1])>>]

(***************************************************************************)
(* replace_image_on_existing_slide (workflow.py).                          *)
(***************************************************************************)
\* hasattr(shape, 'placeholder_format'): the property exists on every shape
\* and raises ValueError on a shape that is no placeholder; hasattr lets any
\* exception but AttributeError through.
ProbePlaceholderFormat(shape) ==
    IF shape.kind = "placeholder" THEN "has" ELSE "raises ValueError"

\* the cleanup loop of lines 314-328: a text-frame shape is removed when
\* hasattr answers False; an exception inside the try leaves the shape
RemovedAsLabel(shape) ==
    /\ HasTextFrame(shape)
    /\ ProbePlaceholderFormat(shape) = "lacks"

remove_text_labels(shapes) == SelectSeq(shapes, LAMBDA sh : ~RemovedAsLabel(sh))

\* the call and its validation of the input files (lines 284-288)
ReplaceBegin(a) ==
    /\ call.pc = "idle"
    /\ LET c == [NoCall EXCEPT !.op = "replace_image_on_existing_slide",
                    !.ppt_path = a.ppt_path, !.slide_index = a.slide_index,
                    !.images = <<a.image>>,
                    !.store_metadata = a.store_metadata, !.add_label = a.add_label]
       IN  call' = IF ~PptExists(a.ppt_path) THEN Raise(c, FileNotFoundError(a.ppt_path))
                   ELSE IF ~ImageExists(a.image) THEN Raise(c, FileNotFoundError(a.image))
                   ELSE [c EXCEPT !.pc = "load"]
    /\ disk0' = disk
    /\ writes' = 0
    /\ ncalls' = ncalls + 1
    /\ UNCHANGED <<env, disk, mtime, backups, clock, log>>

\* prs = Presentation(ppt_path) and the slide index check (lines 291-299)
ReplaceLoad ==
    /\ call.op = "replace_image_on_existing_slide" /\ call.pc = "load"
    /\ call' = IF ~ValidIndex(disk, call.slide_index)
               THEN Raise([call EXCEPT !.prs = disk, !.loaded = TRUE], IndexError)
               ELSE [call EXCEPT !.prs = disk, !.loaded = TRUE,
                                 !.new_slide = disk.sldIdLst[call.slide_index + 1],
                                 !.pc = "position"]
    /\ UNCHANGED <<env, disk, mtime, backups, clock, disk0, writes, ncalls, log>>

\* position = get_image_position(ppt_path, slide_index, image_index=0) (line 303)
ReplacePosition ==
    /\ call.op = "replace_image_on_existing_slide" /\ call.pc = "position"
    /\ LET got == get_image_position(disk, call.slide_index, 0)
       IN  call' = IF got.err # NoErr THEN Raise(call, got.err)
                   ELSE [call EXCEPT !.positions = got.pos, !.pc = "strip"]
    /\ UNCHANGED <<env, disk, mtime, backups, clock, disk0, writes, ncalls, log>>

\* remove the pictures, then the text labels (lines 307-329)
ReplaceStrip ==
    /\ call.op = "replace_image_on_existing_slide" /\ call.pc = "strip"
    /\ LET shapes == call.prs.rels[call.new_slide].shapes
           stripped == remove_text_labels(remove_pictures_from_slide(shapes))
       IN  call' = [call EXCEPT !.prs = WithShapes(call.prs, call.new_slide, stripped),
                                !.pc = "insert"]
    /\ UNCHANGED <<env, disk, mtime, backups, clock, disk0, writes, ncalls, log>>

\* insert the new image at the original position, stamp it (lines 333-348)
ReplaceInsert ==
    /\ call.op = "replace_image_on_existing_slide" /\ call.pc = "insert"
    /\ LET img_path == call.images[1]
           shapes == call.prs.rels[call.new_slide].shapes
           added == add_picture(shapes, img_path, call.positions[1])
           stamped == IF call.store_metadata THEN store_metadata_on_last(added, img_path)
                      ELSE added
       IN  call' = [call EXCEPT !.prs = WithShapes(call.prs, call.new_slide, stamped),
                                !.pc = "label"]
    /\ UNCHANGED <<env, disk, mtime, backups, clock, disk0, writes, ncalls, log>>

\* the label, if requested, without base_dir (lines 351-355)
ReplaceLabel ==
    /\ call.op = "replace_image_on_existing_slide" /\ call.pc = "label"
    /\ LET shapes == call.prs.rels[call.new_slide].shapes
       IN  call' = [call EXCEPT
                !.prs = IF call.add_label
                        THEN WithShapes(call.prs, call.new_slide,
                                        add_text_label(call.prs, shapes, call.images, None))
                        ELSE call.prs,
                !.pc = "save"]
    /\ UNCHANGED <<env, disk, mtime, backups, clock, disk0, writes, ncalls, log>>

\* prs.save(ppt_path) (line 359)
ReplaceSave ==
    /\ call.op = "replace_image_on_existing_slide" /\ call.pc = "save"
    /\ disk' = call.prs
    /\ mtime' = clock
    /\ writes' = writes + 1
    /\ call' = [call EXCEPT !.pc = "done"]
    /\ UNCHANGED <<env, backups, clock, disk0, ncalls, log>>

(***************************************************************************)
(* Failures of the best-effort steps: an exception raised inside the try   *)
(* block that stamps the provenance (workflow.py 237-241, 343-348) or      *)
(* inside the try block of _add_text_label (lines 60-77) is caught and     *)
(* printed as a warning; call.warnings counts these.                       *)
(***************************************************************************)
\* the picture just added when the n-th of the two cNvPr.set calls raised:
\* none, or only descr, was set
stamp_interrupted(shapes, img_path, n) ==
    IF n = 0 THEN shapes ELSE [shapes EXCEPT ![Len(shapes)].descr = img_path]

\* the shapes when the try block of _add_text_label raised: in add_textbox
\* (n = 0, nothing added), before the text was set (n = 1, an empty text box
\* was added) or in the font loop (n = 2, the text is set)
label_interrupted(prs, shapes, image_paths, base_dir, n) ==
    LET label == LabelShape(prs, LabelLines(image_paths, base_dir))
    IN  IF n = 0 THEN shapes
        ELSE IF n = 1 THEN Append(shapes, [label EXCEPT !.text = <<>>])
        ELSE Append(shapes, label)

Exception == [type |-> "Exception", path |-> "", images |-> 0, positions |-> 0]

\* mutant: the handler prints the warning and raises the exception again
CopyInsertStampReraises ==
    /\ call.op = "copy_slide_replace_images" /\ call.pc = "insert"
    /\ call.store_metadata
    /\ \E n \in 0..1 :
        LET img_path == call.images[call.i]
            shapes == call.prs.rels[call.new_slide].shapes
            added == add_picture(shapes, img_path, call.positions[call.i])
        IN  call' = Raise([call EXCEPT
                        !.prs = WithShapes(call.prs, call.new_slide,
                                           stamp_interrupted(added, img_path, n)),
                        !.warnings = call.warnings + 1], Exception)
    /\ UNCHANGED <<env, disk, mtime, backups, clock, disk0, writes, ncalls, log>>

\* one turn of the loop (lines 225-241) in which the stamping raised: the
\* picture is added, the warning printed, the loop goes on
CopyInsertStampFails ==
    /\ call.op = "copy_slide_replace_images" /\ call.pc = "insert"
    /\ call.store_metadata
    /\ \E n \in 0..1 :
        LET img_path == call.images[call.i]
            shapes == call.prs.rels[call.new_slide].shapes
            added == add_picture(shapes, img_path, call.positions[call.i])
        IN  call' = [call EXCEPT
                        !.prs = WithShapes(call.prs, call.new_slide,
                                           stamp_interrupted(added, img_path, n)),
                        !.warnings = call.warnings + 1,
                        !.i = call.i + 1,
                        !.pc = IF call.i = Len(call.images) THEN "label" ELSE "insert"]
    /\ UNCHANGED <<env, disk, mtime, backups, clock, disk0, writes, ncalls, log>>

\* the label step (lines 244-247) in which _add_text_label caught an exception
CopyLabelFails ==
    /\ call.op = "copy_slide_replace_images" /\ call.pc = "label"
    /\ call.add_label
    /\ \E n \in 0..2 :
        LET shapes == call.prs.rels[call.new_slide].shapes
        IN  call' = [call EXCEPT
                        !.prs = WithShapes(call.prs, call.new_slide,
                                    label_interrupted(call.prs, shapes, call.images,
                                                      call.base_dir, n)),
                        !.warnings = call.warnings + 1,
                        !.pc = "save"]
    /\ UNCHANGED <<env, disk, mtime, backups, clock, disk0, writes, ncalls, log>>

\* replace_image_on_existing_slide: the stamping raised (lines 342-348)
ReplaceInsertStampFails ==
    /\ call.op = "replace_image_on_existing_slide" /\ call.pc = "insert"
    /\ call.store_metadata
    /\ \E n \in 0..1 :
        LET img_path == call.images[1]
            shapes == call.prs.rels[call.new_slide].shapes
            added == add_picture(shapes, img_path, call.positions[1])
        IN  call' = [call EXCEPT
                        !.prs = WithShapes(call.prs, call.new_slide,
                                           stamp_interrupted(added, img_path, n)),
                        !.warnings = call.warnings + 1,
                        !.pc = "label"]
    /\ UNCHANGED <<env, disk, mtime, backups, clock, disk0, writes, ncalls, log>>

\* replace_image_on_existing_slide: _add_text_label caught an exception
\* (lines 351-355)
ReplaceLabelFails ==
    /\ call.op = "replace_image_on_existing_slide" /\ call.pc = "label"
    /\ call.add_label
    /\ \E n \in 0..2 :
        LET shapes == call.prs.rels[call.new_slide].shapes
        IN  call' = [call EXCEPT
                        !.prs = WithShapes(call.prs, call.new_slide,
                                    label_interrupted(call.prs, shapes, call.images, None, n)),
                        !.warnings = call.warnings + 1,
                        !.pc = "save"]
    /\ UNCHANGED <<env, disk, mtime, backups, clock, disk0, writes, ncalls, log>>

(***************************************************************************)
(* add_label_to_existing_slide (workflow.py).                              *)
(***************************************************************************)
\* mutant: the tag carries the 0-based index i
PlaceholderTagZeroBased(n) ==
    CASE n = 1 -> "[placeholder 0]"
      [] n = 2 -> "[placeholder 1]"
      [] n = 3 -> "[placeholder 2]"
      [] OTHER -> "[placeholder 3+]"

\* f"[placeholder {i + 1}]", n the 1-based number
PlaceholderTag(n) ==
    CASE n = 1 -> "[placeholder 1]"
      [] n = 2 -> "[placeholder 2]"
      [] n = 3 -> "[placeholder 3]"
      [] OTHER -> "[placeholder 4+]"

\* found_metadata: the descr of each picture, "" when it has none
FoundMetadata(pictures) == [i \in 1..Len(pictures) |-> pictures[i].descr]

\* the label's lines (lines 413-419)
ExistingSlideLabel(pictures, base_dir) ==
    LET found == FoundMetadata(pictures)
    IN  IF \E i \in 1..Len(found) : found[i] # ""
        THEN LabelLines([i \in 1..Len(found) |->
                            IF found[i] # "" THEN found[i] ELSE PlaceholderTag(i)],
                        base_dir)
        ELSE <<"TEMPLATE SLIDE">>

\* the call and its validation (lines 381-382)
LabelBegin(a) ==
    /\ call.pc = "idle"
    /\ LET c == [NoCall EXCEPT !.op = "add_label_to_existing_slide",
                    !.ppt_path = a.ppt_path, !.slide_index = a.slide_index,
                    !.base_dir = a.base_dir]
       IN  call' = IF ~PptExists(a.ppt_path) THEN Raise(c, FileNotFoundError(a.ppt_path))
                   ELSE [c EXCEPT !.pc = "load"]
    /\ disk0' = disk
    /\ writes' = 0
    /\ ncalls' = ncalls + 1
    /\ UNCHANGED <<env, disk, mtime, backups, clock, log>>

\* load, index check, the pictures, the label (lines 384-419)
LabelLoad ==
    /\ call.op = "add_label_to_existing_slide" /\ call.pc = "load"
    /\ LET c == [call EXCEPT !.prs = disk, !.loaded = TRUE]
       IN  call' =
            IF ~ValidIndex(disk, call.slide_index) THEN Raise(c, IndexError)
            ELSE LET rId == disk.sldIdLst[call.slide_index + 1]
                     shapes == disk.rels[rId].shapes
                     pictures == Pictures(shapes)
                 IN  IF pictures = <<>>
                     THEN [c EXCEPT !.pc = "done", !.retb = FALSE]
                     ELSE [c EXCEPT
                            !.new_slide = rId,
                            !.prs = WithShapes(disk, rId,
                                        Append(shapes, LabelShape(disk,
                                            ExistingSlideLabel(pictures, call.base_dir)))),
                            !.pc = "save"]
    /\ UNCHANGED <<env, disk, mtime, backups, clock, disk0, writes, ncalls, log>>

\* prs.save(ppt_path); return True (lines 421-422)
LabelSave ==
    /\ call.op = "add_label_to_existing_slide" /\ call.pc = "save"
    /\ disk' = call.prs
    /\ mtime' = clock
    /\ writes' = writes + 1
    /\ call' = [call EXCEPT !.pc = "done", !.retb = TRUE]
    /\ UNCHANGED <<env, backups, clock, disk0, ncalls, log>>

(***************************************************************************)
(* backup_presentation (backup.py).                                        *)
(***************************************************************************)
Categories == {"latest", "5min", "10min", "30min", "hourly"}

\* intervals: the threshold of a category in seconds
Threshold(category) ==
    CASE category = "latest" -> 0
      [] category = "5min" -> 300
      [] category = "10min" -> 600
      [] category = "30min" -> 1800
      [] category = "hourly" -> 3600

\* the order in which the loop visits the categories (the dict's order)
CategoryOrder == <<"latest", "5min", "10min", "30min", "hourly">>

NoFile == [present |-> FALSE, content |-> NoDoc, mtime |-> 0]

\* the file names a category folder may hold: os.path.basename(ppt_path)
BackupNames == {DeckPath, OutPath}

EmptyFolder == [n \in BackupNames |-> NoFile]

EmptyBackups == [c \in Categories |-> EmptyFolder]

\* existing_backups = glob.glob(category_dir/*.pptx)
ExistingBackups(folder) == {n \in DOMAIN folder : folder[n].present}

\* os.path.getmtime(max(existing_backups, key=os.path.getmtime))
LatestBackupTime(folder) ==
    CHOOSE t \in {folder[n].mtime : n \in ExistingBackups(folder)} :
        \A n \in ExistingBackups(folder) : folder[n].mtime <= t

\* should_backup of one category at time now (lines 71-81)
ShouldBackup(held, category, now) ==
    IF ExistingBackups(held[category]) # {} /\ Threshold(category) > 0
    THEN now - LatestBackupTime(held[category]) >= Threshold(category)
    ELSE TRUE

\* the backup folders after the loop has visited the first k categories:
\* where due, the stored file is copied in under its own name;
\* shutil.copy2 keeps the source's modification time
backup_categories(held, name, stored, stored_mtime, now, k) ==
    [c \in Categories |->
        IF /\ \E i \in 1..k : CategoryOrder[i] = c
           /\ ShouldBackup(held, c, now)
        THEN [held[c] EXCEPT ![name] =
                    [present |-> TRUE, content |-> stored, mtime |-> stored_mtime]]
        ELSE held[c]]

\* backup_presentation(ppt_path, backup_base) returning normally
backup_presentation(held, name, stored, stored_mtime, now) ==
    backup_categories(held, name, stored, stored_mtime, now, Len(CategoryOrder))

\* created_backups: the categories the loop copied the file into
CreatedBackups(held, now) == {c \in Categories : ShouldBackup(held, c, now)}

\* one entry of the images list of the configuration: a file name, a list of
\* file names (several images on one slide) or a dict with a 'path'
Str(f) == [kind |-> "string", files |-> <<f>>]

Lst(fs) == [kind |-> "list", files |-> fs]

Dct(f) == [kind |-> "dict", files |-> <<f>>]

NoConfig ==
    [presentation |-> None, template_slide |-> 0, preserve_slides |-> {},
     images |-> <<>>, base_dir |-> "", output_path |-> None]

\* no output file, no batch run, no second process
NoBatch ==
    [pc |-> "none", config |-> NoConfig, ppt_file |-> None, to_delete |-> <<>>,
     k |-> 0, success_count |-> 0, error_count |-> 0, warnings |-> {},
     results |-> <<>>, code |-> 0, error |-> NoErr]

Alone == out = NoFile /\ batch = NoBatch /\ other = NoCall

(***************************************************************************)
(* delete_slide (slide_utils.py).                                          *)
(***************************************************************************)
\* mutant: the first slide is dropped, whatever slide_index is
drop_first_slide(prs, slide_index) ==
    LET rId == prs.sldIdLst[1]
    IN  [prs EXCEPT
            !.rels = [r \in DOMAIN prs.rels \ {rId} |-> prs.rels[r]],
            !.sldIdLst = Tail(prs.sldIdLst)]

\* mutant: the slide-id entry is removed, the relationship is not dropped
drop_slide_keep_rel(prs, slide_index) ==
    [prs EXCEPT
        !.sldIdLst = SubSeq(prs.sldIdLst, 1, slide_index)
                        \o SubSeq(prs.sldIdLst, slide_index + 2, Len(prs.sldIdLst))]

\* mutant: the slide that had index slide_index in the original deck is
\* dropped (the one related under rId slide_index + 1), as if pending deletes
\* were renumbered
drop_slide_by_number(prs, slide_index) ==
    LET rId == slide_index + 1
    IN  [prs EXCEPT
            !.rels = [r \in DOMAIN prs.rels \ {rId} |-> prs.rels[r]],
            !.sldIdLst = SelectSeq(prs.sldIdLst, LAMBDA r : r # rId)]

\* prs.part.drop_rel(rId); del prs.slides._sldIdLst[slide_index]
drop_slide(prs, slide_index) ==
    LET rId == prs.sldIdLst[slide_index + 1]
    IN  [prs EXCEPT
            !.rels = [r \in DOMAIN prs.rels \ {rId} |-> prs.rels[r]],
            !.sldIdLst = SubSeq(prs.sldIdLst, 1, slide_index)
                            \o SubSeq(prs.sldIdLst, slide_index + 2, Len(prs.sldIdLst))]

\* the call and its validation of the input file (lines 138-139)
DeleteBegin(a) ==
    /\ call.pc = "idle"
    /\ LET c == [NoCall EXCEPT !.op = "delete_slide",
                    !.ppt_path = a.ppt_path, !.slide_index = a.slide_index]
       IN  call' = IF ~PptExists(a.ppt_path) THEN Raise(c, FileNotFoundError(a.ppt_path))
                   ELSE [c EXCEPT !.pc = "load"]
    /\ disk0' = Stored(a.ppt_path)
    /\ writes' = 0
    /\ ncalls' = ncalls + 1
    /\ UNCHANGED <<env, disk, mtime, backups, clock, log>>

\* mutant: the backup is taken before the slide index is checked
DeleteLoadBackupFirst ==
    /\ call.op = "delete_slide" /\ call.pc = "load"
    /\ backups' = backup_presentation(backups, Basename(call.ppt_path), Stored(call.ppt_path),
                                      StoredMtime(call.ppt_path), clock)
    /\ call' = IF ~ValidIndex(Stored(call.ppt_path), call.slide_index)
               THEN Raise([call EXCEPT !.prs = Stored(call.ppt_path), !.loaded = TRUE], IndexError)
               ELSE [call EXCEPT !.prs = Stored(call.ppt_path), !.loaded = TRUE, !.pc = "drop"]
    /\ UNCHANGED <<env, disk, mtime, clock, disk0, writes, ncalls, log>>

\* prs = Presentation(ppt_path) and the slide index check (lines 142-148)
DeleteLoad ==
    /\ call.op = "delete_slide" /\ call.pc = "load"
    /\ call' = IF ~ValidIndex(Stored(call.ppt_path), call.slide_index)
               THEN Raise([call EXCEPT !.prs = Stored(call.ppt_path), !.loaded = TRUE], IndexError)
               ELSE [call EXCEPT !.prs = Stored(call.ppt_path), !.loaded = TRUE, !.pc = "backup"]
    /\ UNCHANGED <<env, disk, mtime, backups, clock, disk0, writes, ncalls, log>>

\* mutant: the backup step copies nothing
DeleteBackupSkipped ==
    /\ call.op = "delete_slide" /\ call.pc = "backup"
    /\ call' = [call EXCEPT !.pc = "drop"]
    /\ UNCHANGED <<env, disk, mtime, backups, clock, disk0, writes, ncalls, log>>

\* backups = backup_presentation(ppt_path, backup_base=backup_base) (line 151)
DeleteBackup ==
    /\ call.op = "delete_slide" /\ call.pc = "backup"
    /\ backups' = backup_presentation(backups, Basename(call.ppt_path), Stored(call.ppt_path),
                                      StoredMtime(call.ppt_path), clock)
    /\ call' = [call EXCEPT !.pc = "drop"]
    /\ UNCHANGED <<env, disk, mtime, clock, disk0, writes, ncalls, log>>

\* the relationship and the list entry removed in memory (lines 155-157)
DeleteDrop ==
    /\ call.op = "delete_slide" /\ call.pc = "drop"
    /\ call' = [call EXCEPT !.prs = drop_slide(call.prs, call.slide_index), !.pc = "save"]
    /\ UNCHANGED <<env, disk, mtime, backups, clock, disk0, writes, ncalls, log>>

\* prs.save(ppt_path) (line 160)
DeleteSave ==
    /\ call.op = "delete_slide" /\ call.pc = "save"
    /\ SaveAs(call.ppt_path, call.prs)
    /\ writes' = writes + 1
    /\ call' = [call EXCEPT !.pc = "done"]
    /\ UNCHANGED <<batch, other, backups, clock, disk0, ncalls, log>>

(***************************************************************************)
(* The caller: a call ends (returned or raised) and the next may begin.    *)
(***************************************************************************)
Finish ==
    /\ call.pc \in {"done", "raised"}
    /\ log' = Append(log, [op |-> call.op, ok |-> call.pc = "done", ret |-> call.ret,
                           slide_index |-> call.slide_index,
                           before |-> NumSlides(disk0), after |-> NumSlides(Stored(call.ppt_path)),
                           template |-> IF ValidIndex(Stored(call.ppt_path), call.slide_index)
                                        THEN SlideAt(Stored(call.ppt_path), call.slide_index)
                                        ELSE MkSlide(None, <<>>)])
    /\ call' = NoCall
    /\ UNCHANGED <<env, disk, mtime, backups, clock, disk0, writes, ncalls>>

(***************************************************************************)
(* Initial decks.                                                          *)
(***************************************************************************)
\* hundredths of an inch in EMU (9144 EMU each)
Hundredths(n) == (n * EMUS_PER_INCH) \div 100

\* 0.14, 0.15, 0.16, 0.57, 0.96, 5.43 and 2.72 inches
In014 == Hundredths(14)
In015 == Hundredths(15)
In016 == Hundredths(16)
In057 == Hundredths(57)
In096 == Hundredths(96)
In543 == Hundredths(543)
In272 == Hundredths(272)

Pic(left, top) == MkShape("picture", left, top, In543, In272, "template.png", "", "", <<>>)

TitleShape == MkShape("placeholder", 0, 0, 0, 0, None, "", "", <<"Title">>)

TextBoxShape == MkShape("textbox", In014, In014, In543, In014, None, "", "", <<"old label">>)

OtherShape == MkShape("other", In057, In057, In014, In014, None, "", "", <<>>)

\* a slide without pictures on the blank layout; a two-picture template on a
\* layout with a title, whose right picture comes first in the shape tree and
\* sits 0.01 in higher than the left one, within the same 0.1 in row
TextSlide == MkSlide("Blank", <<TextBoxShape>>)

TwoPictureSlide ==
    MkSlide("TitleOnly",
            <<TitleShape, Pic(In057, In014), TextBoxShape, Pic(In014, In015), OtherShape>>)

SlideChoices == {TextSlide, TwoPictureSlide}

\* a deck stored by PowerPoint: slides related under rId 1..n in order
Deck(slides) ==
    [sldIdLst |-> [i \in 1..Len(slides) |-> i],
     rels |-> slides,
     slide_width |-> 12192000, slide_height |-> 6858000]

SeqsUpTo(S, n) == UNION {[1..k -> S] : k \in 0..n}

InitDecks == {Deck(ss) : ss \in SeqsUpTo(SlideChoices, MaxSlides) \ {<<>>}}

Init ==
    /\ disk \in InitDecks
    /\ mtime = 0
    /\ clock = 0
    /\ call = NoCall
    /\ backups = EmptyBackups /\ Alone
    /\ disk0 = disk
    /\ writes = 0
    /\ ncalls = 0
    /\ log = <<>>

(***************************************************************************)
(* Arguments.                                                              *)
(***************************************************************************)
InchPos(left, top) ==
    [left |-> EmuToInches(left), top |-> EmuToInches(top),
     width |-> EmuToInches(In543), height |-> EmuToInches(In272)]

\* explicit positions a caller passes: {left: 0.57, top: 0.14, ...} and
\* {left: 0.14, top: 0.96, ...}
PositionChoices == {InchPos(In057, In014), InchPos(In014, In096)}

SlideIndexes == -1..MaxSlides

\* store_metadata, add_label and base_dir; base_dir is read for the label only
FlagChoices ==
    {[store_metadata |-> sm, add_label |-> al, base_dir |-> bd] :
        sm \in BOOLEAN, al \in BOOLEAN, bd \in BaseDirs} \
    {f \in [store_metadata : BOOLEAN, add_label : {FALSE}, base_dir : BaseDirs] :
        f.base_dir # None}

\* positions: None (auto TRUE), or an explicit list
PositionArgs ==
    {[auto |-> TRUE, positions |-> <<>>]} \cup
    {[auto |-> FALSE, positions |-> ps] : ps \in SeqsUpTo(PositionChoices, MaxImgs)}

CopyArgs ==
    {[ppt_path |-> pp, slide_index |-> idx, images |-> imgs,
      auto |-> pa.auto, positions |-> pa.positions,
      store_metadata |-> f.store_metadata, add_label |-> f.add_label,
      base_dir |-> f.base_dir] :
        pp \in PptPaths, idx \in SlideIndexes, imgs \in SeqsUpTo(ImagePaths, MaxImgs),
        pa \in PositionArgs, f \in FlagChoices}

ReplaceArgs ==
    [ppt_path : PptPaths, slide_index : SlideIndexes, image : ImagePaths,
     store_metadata : BOOLEAN, add_label : BOOLEAN]

LabelArgs == [ppt_path : PptPaths, slide_index : SlideIndexes, base_dir : BaseDirs]

DeleteArgs == [ppt_path : PptPaths, slide_index : SlideIndexes]

(***************************************************************************)
(* Spec: one workflow call, of any of the four operations, on any deck.    *)
(***************************************************************************)
CopyCall == ncalls = 0 /\ \E a \in CopyArgs : CopyBegin(a)

ReplaceCall == ncalls = 0 /\ \E a \in ReplaceArgs : ReplaceBegin(a)

LabelCall == ncalls = 0 /\ \E a \in LabelArgs : LabelBegin(a)

DeleteCall == ncalls = 0 /\ \E a \in DeleteArgs : DeleteBegin(a)

Next ==
    \/ CopyCall \/ CopyLoad \/ CopyResolve \/ CopyCount \/ CopyDuplicate
    \/ CopyStrip \/ CopyInsert \/ CopyLabel \/ CopySave
    \/ ReplaceCall \/ ReplaceLoad \/ ReplacePosition \/ ReplaceStrip
    \/ ReplaceInsert \/ ReplaceLabel \/ ReplaceSave
    \/ LabelCall \/ LabelLoad \/ LabelSave
    \/ DeleteCall \/ DeleteLoad \/ DeleteBackup \/ DeleteDrop \/ DeleteSave
    \/ Finish

Spec == Init /\ [][Next]_vars

(***************************************************************************)
(* SpecSeq: successive copy_slide_replace_images calls on the stored file. *)
(***************************************************************************)
\* the first n of the explicit positions <<P1, P2, P1, ...>>
FixedPositions(n) ==
    [i \in 1..n |-> IF i % 2 = 1 THEN InchPos(In057, In014) ELSE InchPos(In014, In096)]

SeqImages == {<<"/data/a.png">>, <<"b.png", "/data/a.png">>}

SeqCopyArgs ==
    {[ppt_path |-> DeckPath, slide_index |-> idx, images |-> imgs,
      auto |-> auto, positions |-> IF auto THEN <<>> ELSE FixedPositions(Len(imgs)),
      store_metadata |-> TRUE, add_label |-> FALSE, base_dir |-> None] :
        idx \in 0..MaxSlides, imgs \in SeqImages, auto \in BOOLEAN}

NextCopyCall == ncalls < MaxCalls /\ \E a \in SeqCopyArgs : CopyBegin(a)

NextSeq ==
    \/ NextCopyCall \/ CopyLoad \/ CopyResolve \/ CopyCount \/ CopyDuplicate
    \/ CopyStrip \/ CopyInsert \/ CopyLabel \/ CopySave
    \/ Finish

SpecSeq == Init /\ [][NextSeq]_vars

(***************************************************************************)
(* SpecPos: get_all_image_positions on every small slide.                  *)
(***************************************************************************)
\* tops and lefts: 0.05, 0.15 and 0.16 in; round(x, 1) gives 0.1, 0.1 and 0.2
\* (the doubles 0.05 and 0.15 are ties in decimal only)
PosCoords == {Hundredths(5), In015, In016}

PosShapes == {Pic(l, t) : l \in PosCoords, t \in PosCoords} \cup {TextBoxShape}

InitPos ==
    /\ disk \in {Deck(<<MkSlide("Blank", shapes)>>) : shapes \in SeqsUpTo(PosShapes, MaxPics)}
    /\ mtime = 0
    /\ clock = 0
    /\ call = NoCall
    /\ backups = EmptyBackups /\ Alone
    /\ disk0 = disk
    /\ writes = 0
    /\ ncalls = 0
    /\ log = <<>>

\* get_all_image_positions(ppt_path, slide_index), a read-only call (position.py)
PositionsCall(ppt_path, slide_index) ==
    /\ call.pc = "idle"
    /\ ncalls = 0
    /\ LET c == [NoCall EXCEPT !.op = "get_all_image_positions",
                    !.ppt_path = ppt_path, !.slide_index = slide_index]
       IN  call' = IF ~PptExists(ppt_path) THEN Raise(c, FileNotFoundError(ppt_path))
                   ELSE IF ~ValidIndex(disk, slide_index) THEN Raise(c, IndexError)
                   ELSE [c EXCEPT !.pc = "done",
                                  !.positions = get_all_image_positions(disk, slide_index)]
    /\ disk0' = disk
    /\ writes' = 0
    /\ ncalls' = ncalls + 1
    /\ UNCHANGED <<env, disk, mtime, backups, clock, log>>

NextPos ==
    \/ \E ppt_path \in PptPaths, slide_index \in -1..1 : PositionsCall(ppt_path, slide_index)
    \/ Finish

SpecPos == InitPos /\ [][NextPos]_vars

(***************************************************************************)
(* SpecShape: the shape-level functions on every small slide:              *)
(* get_image_position, and remove_pictures_from_slide followed by a save   *)
(* and get_all_image_positions.                                            *)
(***************************************************************************)
TreeShapes == {Pic(In057, In014), Pic(In014, In015), TextBoxShape, OtherShape}

InitShape ==
    /\ disk \in {Deck(<<MkSlide("Blank", shapes)>>) : shapes \in SeqsUpTo(TreeShapes, MaxPics)}
    /\ mtime = 0
    /\ clock = 0
    /\ call = NoCall
    /\ backups = EmptyBackups /\ Alone
    /\ disk0 = disk
    /\ writes = 0
    /\ ncalls = 0
    /\ log = <<>>

\* get_image_position(ppt_path, slide_index, image_index), a read-only call
\* (position.py 57-94); image_index is kept in call.i
GetPositionCall(ppt_path, slide_index, image_index) ==
    /\ call.pc = "idle"
    /\ ncalls = 0
    /\ LET c == [NoCall EXCEPT !.op = "get_image_position",
                    !.ppt_path = ppt_path, !.slide_index = slide_index,
                    !.i = image_index]
           got == get_image_position(disk, slide_index, image_index)
       IN  call' = IF ~PptExists(ppt_path) THEN Raise(c, FileNotFoundError(ppt_path))
                   ELSE IF got.err # NoErr THEN Raise(c, got.err)
                   ELSE [c EXCEPT !.pc = "done", !.positions = got.pos]
    /\ disk0' = disk
    /\ writes' = 0
    /\ ncalls' = ncalls + 1
    /\ UNCHANGED <<env, disk, mtime, backups, clock, log>>

\* prs = Presentation(ppt_path); n = remove_pictures_from_slide(prs.slides[i]):
\* the slide changes in memory, the count is kept in call.ret
RemovePicturesCall(slide_index) ==
    /\ call.pc = "idle"
    /\ ncalls = 0
    /\ ValidIndex(disk, slide_index)
    /\ LET rId == disk.sldIdLst[slide_index + 1]
           shapes == disk.rels[rId].shapes
       IN  call' = [NoCall EXCEPT !.op = "remove_pictures_from_slide",
                        !.ppt_path = DeckPath, !.slide_index = slide_index,
                        !.loaded = TRUE, !.new_slide = rId,
                        !.prs = WithShapes(disk, rId, remove_pictures_from_slide(shapes)),
                        !.ret = pictures_removed(shapes),
                        !.pc = "save"]
    /\ disk0' = disk
    /\ writes' = 0
    /\ ncalls' = ncalls + 1
    /\ UNCHANGED <<env, disk, mtime, backups, clock, log>>

\* prs.save(ppt_path) by the caller of remove_pictures_from_slide
RemoveSave ==
    /\ call.op = "remove_pictures_from_slide" /\ call.pc = "save"
    /\ disk' = call.prs
    /\ mtime' = clock
    /\ writes' = writes + 1
    /\ call' = [call EXCEPT !.pc = "positions"]
    /\ UNCHANGED <<env, backups, clock, disk0, ncalls, log>>

\* get_all_image_positions(ppt_path, slide_index) on the saved slide
RemovePositions ==
    /\ call.op = "remove_pictures_from_slide" /\ call.pc = "positions"
    /\ call' = IF ~ValidIndex(disk, call.slide_index) THEN Raise(call, IndexError)
               ELSE [call EXCEPT !.pc = "done",
                                 !.positions = get_all_image_positions(disk, call.slide_index)]
    /\ UNCHANGED <<env, disk, mtime, backups, clock, disk0, writes, ncalls, log>>

NextShape ==
    \/ \E ppt_path \in PptPaths, slide_index \in -1..1, image_index \in -1..MaxPics :
            GetPositionCall(ppt_path, slide_index, image_index)
    \/ \E slide_index \in 0..1 : RemovePicturesCall(slide_index)
    \/ RemoveSave
    \/ RemovePositions
    \/ Finish

SpecShape == InitShape /\ [][NextShape]_vars

(***************************************************************************)
(* SpecDel: successive delete_slide calls on a deck of numbered slides     *)
(* (the delete loop of batch_insert_images.py calls delete_slide once per  *)
(* index).                                                                 *)
(***************************************************************************)
\* the n-th slide of the original deck (0-based), told by the place of its
\* text box, n hundredths of an inch from the top
NumberedSlide(n) ==
    MkSlide("Blank", <<MkShape("textbox", In014, Hundredths(n), In543, In014, None, "", "",
                               <<"slide">>)>>)

NumberedDeck(n) == Deck([i \in 1..n |-> NumberedSlide(i - 1)])

InitDel ==
    /\ disk \in {NumberedDeck(n) : n \in 1..MaxDeck}
    /\ mtime = 0
    /\ clock = 0
    /\ call = NoCall
    /\ backups = EmptyBackups /\ Alone
    /\ disk0 = disk
    /\ writes = 0
    /\ ncalls = 0
    /\ log = <<>>

\* time passes between two calls, five minutes at a time (datetime.now() is
\* read by backup_presentation)
Tick ==
    /\ call.pc = "idle"
    /\ ncalls > 0
    /\ clock < MaxTicks * Threshold("5min")
    /\ clock' = clock + Threshold("5min")
    /\ UNCHANGED <<env, disk, mtime, call, backups, disk0, writes, ncalls, log>>

NextDeleteCall ==
    /\ ncalls < MaxDeletes
    /\ \E slide_index \in -1..MaxDeck :
            DeleteBegin([ppt_path |-> DeckPath, slide_index |-> slide_index])

NextDel ==
    \/ NextDeleteCall \/ DeleteLoad \/ DeleteBackup \/ DeleteDrop \/ DeleteSave
    \/ Finish
    \/ Tick

SpecDel == InitDel /\ [][NextDel]_vars

(***************************************************************************)
(* SpecOne: copy_slide_replace_image, and then, on the same stored file,   *)
(* the copy_slide_replace_images call it stands for.  log[1] holds the     *)
(* arguments, log[2] the outcome of the first of the two calls.            *)
(***************************************************************************)
\* the arguments of copy_slide_replace_image; position is read unless auto
SingleArgs ==
    {[ppt_path |-> pp, slide_index |-> idx, new_image_path |-> img,
      auto |-> pa.auto,
      position |-> IF pa.auto THEN InchPos(0, 0) ELSE pa.positions[1],
      store_metadata |-> f.store_metadata, add_label |-> f.add_label,
      base_dir |-> f.base_dir] :
        pp \in PptPaths, idx \in SlideIndexes, img \in ImagePaths,
        pa \in {p \in PositionArgs : p.auto \/ Len(p.positions) = 1},
        f \in FlagChoices}

InitOne ==
    /\ disk \in InitDecks
    /\ mtime = 0
    /\ clock = 0
    /\ call = NoCall
    /\ backups = EmptyBackups /\ Alone
    /\ disk0 = disk
    /\ writes = 0
    /\ ncalls = 0
    /\ log \in {<<[args |-> a, call |-> NoCall, stored |-> disk]>> : a \in SingleArgs}

\* the single-image call
SingleCall == ncalls = 0 /\ Len(log) = 1 /\ CopySingleBegin(log[1].args)

\* its outcome is kept and the file is put back as it was stored
KeepOutcome ==
    /\ ncalls = 1 /\ Len(log) = 1
    /\ call.pc \in {"done", "raised"}
    /\ log' = Append(log, [args |-> log[1].args, call |-> call, stored |-> disk])
    /\ disk' = disk0
    /\ mtime' = 0
    /\ call' = NoCall
    /\ UNCHANGED <<env, backups, clock, disk0, writes, ncalls>>

\* copy_slide_replace_images(path, idx, [img], positions=[position] or None,
\* store_metadata, add_label, base_dir) with the arguments of the first call
PluralCall ==
    /\ ncalls = 1 /\ Len(log) = 2
    /\ LET a == log[1].args
       IN  CopyBegin([ppt_path |-> a.ppt_path, slide_index |-> a.slide_index,
                      images |-> <<a.new_image_path>>,
                      auto |-> a.auto,
                      positions |-> IF a.auto THEN <<>> ELSE <<a.position>>,
                      store_metadata |-> a.store_metadata, add_label |-> a.add_label,
                      base_dir |-> a.base_dir])

NextOne ==
    \/ SingleCall \/ KeepOutcome \/ PluralCall
    \/ CopyLoad \/ CopyResolve \/ CopyCount \/ CopyDuplicate
    \/ CopyStrip \/ CopyInsert \/ CopyLabel \/ CopySave

SpecOne == InitOne /\ [][NextOne]_vars

(***************************************************************************)
(* SpecExisting: replace_image_on_existing_slide and                       *)
(* add_label_to_existing_slide, called again and again on one slide.       *)
(***************************************************************************)
\* one picture and one free text box (an earlier label)
LabelledSlide == MkSlide("Blank", <<Pic(In014, In096), TextBoxShape>>)

\* a picture stamped with its source, as store_metadata leaves it
StampedPic(left, top, img_path) ==
    MkShape("picture", left, top, In543, In272, img_path, img_path, Basename(img_path),
            <<>>)

\* a title, a picture without provenance and a stamped picture
MixedSlide ==
    MkSlide("TitleOnly",
            <<TitleShape, Pic(In057, In014), StampedPic(In014, In015, "/data/a.png")>>)

ExistingSlides == {LabelledSlide, MixedSlide, TextSlide}

InitExisting ==
    /\ disk \in {Deck(<<slide>>) : slide \in ExistingSlides}
    /\ mtime = 0
    /\ clock = 0
    /\ call = NoCall
    /\ backups = EmptyBackups /\ Alone
    /\ disk0 = disk
    /\ writes = 0
    /\ ncalls = 0
    /\ log = <<>>

NextReplaceCall ==
    /\ ncalls < MaxCalls
    /\ \E slide_index \in 0..1, image \in ExistingImages,
          store_metadata \in BOOLEAN, add_label \in BOOLEAN :
            ReplaceBegin([ppt_path |-> DeckPath, slide_index |-> slide_index,
                          image |-> image, store_metadata |-> store_metadata,
                          add_label |-> add_label])

NextLabelCall ==
    /\ ncalls < MaxCalls
    /\ \E slide_index \in 0..1, base_dir \in BaseDirs :
            LabelBegin([ppt_path |-> DeckPath, slide_index |-> slide_index,
                        base_dir |-> base_dir])

NextExisting ==
    \/ NextReplaceCall \/ ReplaceLoad \/ ReplacePosition \/ ReplaceStrip
    \/ ReplaceInsert \/ ReplaceLabel \/ ReplaceSave
    \/ NextLabelCall \/ LabelLoad \/ LabelSave
    \/ Finish

SpecExisting == InitExisting /\ [][NextExisting]_vars

(***************************************************************************)
(* SpecMix: copy_slide_replace_images calls (each duplicating a slide) and *)
(* delete_slide calls, in any order, on the stored file.                   *)
(***************************************************************************)
InitMix ==
    /\ disk \in {Deck(<<TwoPictureSlide>>), Deck(<<TwoPictureSlide, TextSlide>>)}
    /\ mtime = 0
    /\ clock = 0
    /\ call = NoCall
    /\ backups = EmptyBackups /\ Alone
    /\ disk0 = disk
    /\ writes = 0
    /\ ncalls = 0
    /\ log = <<>>

\* slide indices of the calls: in and out of range as the deck shrinks and grows
MixIndexes == 0..2

MixCopyArgs ==
    {[ppt_path |-> DeckPath, slide_index |-> idx, images |-> <<"/data/a.png">>,
      auto |-> FALSE, positions |-> FixedPositions(1),
      store_metadata |-> TRUE, add_label |-> FALSE, base_dir |-> None] :
        idx \in MixIndexes}

MixCopyCall == ncalls < MaxOps /\ \E a \in MixCopyArgs : CopyBegin(a)

MixDeleteCall ==
    /\ ncalls < MaxOps
    /\ \E slide_index \in MixIndexes :
            DeleteBegin([ppt_path |-> DeckPath, slide_index |-> slide_index])

NextMix ==
    \/ MixCopyCall \/ CopyLoad \/ CopyResolve \/ CopyCount \/ CopyDuplicate
    \/ CopyStrip \/ CopyInsert \/ CopyLabel \/ CopySave
    \/ MixDeleteCall \/ DeleteLoad \/ DeleteBackup \/ DeleteDrop \/ DeleteSave
    \/ Finish

SpecMix == InitMix /\ [][NextMix]_vars

(***************************************************************************)
(* SpecRace: two processes, each making one copy_slide_replace_images call *)
(* on the same file.  call is the call of the process that is running,     *)
(* other the call of the process that is not; the scheduler may switch     *)
(* between any two steps.  Nothing in the code locks the file.             *)
(***************************************************************************)
InitRace ==
    /\ disk \in {Deck(<<LabelledSlide>>), Deck(<<TextSlide, LabelledSlide>>)}
    /\ mtime = 0
    /\ clock = 0
    /\ call = NoCall
    /\ backups = EmptyBackups /\ Alone
    /\ disk0 = disk
    /\ writes = 0
    /\ ncalls = 0
    /\ log = <<>>

\* the first call to start inserts /data/a.png, the second b.png
RaceImage(n) == IF n = 0 THEN "/data/a.png" ELSE "b.png"

RaceArgs(n) ==
    {[ppt_path |-> DeckPath, slide_index |-> idx, images |-> <<RaceImage(n)>>,
      auto |-> auto, positions |-> IF auto THEN <<>> ELSE FixedPositions(1),
      store_metadata |-> TRUE, add_label |-> al, base_dir |-> None] :
        idx \in 0..1, auto \in BOOLEAN, al \in BOOLEAN}

RaceCall == ncalls < 2 /\ \E a \in RaceArgs(ncalls) : CopyBegin(a)

\* the operating system runs the other process
Switch ==
    /\ call # other
    /\ call' = other
    /\ other' = call
    /\ UNCHANGED <<disk, mtime, backups, clock, disk0, writes, ncalls, log, out, batch>>

NextRace ==
    \/ RaceCall \/ CopyLoad \/ CopyResolve \/ CopyCount \/ CopyDuplicate
    \/ CopyStrip \/ CopyInsert \/ CopyLabel \/ CopySave
    \/ Switch

SpecRace == InitRace /\ [][NextRace]_vars

(***************************************************************************)
(* SpecBackup: backup_presentation called on one backup_base for two       *)
(* presentation files, deck.pptx and out.pptx, with delete_slide calls     *)
(* (which back up and then rewrite deck.pptx) and time passing in between. *)
(***************************************************************************)
InitBackup ==
    /\ disk = NumberedDeck(MaxBackups)
    /\ mtime = 0
    /\ clock = 0
    /\ call = NoCall
    /\ backups = EmptyBackups
    /\ out = [present |-> TRUE, content |-> NumberedDeck(1), mtime |-> 0]
    /\ batch = NoBatch
    /\ other = NoCall
    /\ disk0 = disk
    /\ writes = 0
    /\ ncalls = 0
    /\ log = <<>>

\* backup_presentation(ppt_path, backup_base) (backup.py 50-92)
BackupCall(ppt_path) ==
    /\ call.pc = "idle"
    /\ ncalls < MaxBackups
    /\ LET c == [NoCall EXCEPT !.op = "backup_presentation", !.ppt_path = ppt_path]
       IN  IF ~PptExists(ppt_path)
           THEN /\ call' = Raise(c, FileNotFoundError(ppt_path))
                /\ UNCHANGED backups
           ELSE /\ call' = [c EXCEPT !.pc = "done", !.created = CreatedBackups(backups, clock)]
                /\ backups' = backup_presentation(backups, Basename(ppt_path), Stored(ppt_path),
                                                   StoredMtime(ppt_path), clock)
    /\ disk0' = Stored(ppt_path)
    /\ writes' = 0
    /\ ncalls' = ncalls + 1
    /\ UNCHANGED <<env, disk, mtime, clock, log>>

BackupDeleteCall ==
    /\ ncalls < MaxBackups
    /\ DeleteBegin([ppt_path |-> DeckPath, slide_index |-> 0])

\* the times at which calls are made: the thresholds, in seconds from the start
Times == {0, 300, 600, 1800, 3600}

\* time passes between two calls
Advance ==
    /\ call.pc = "idle"
    /\ \E t \in Times : t > clock /\ clock' = t
    /\ UNCHANGED <<env, disk, mtime, call, backups, disk0, writes, ncalls, log>>

NextBackup ==
    \/ \E ppt_path \in {DeckPath, OutPath, "nofile.pptx"} : BackupCall(ppt_path)
    \/ BackupDeleteCall \/ DeleteLoad \/ DeleteBackup \/ DeleteDrop \/ DeleteSave
    \/ Finish
    \/ Advance

SpecBackup == InitBackup /\ [][NextBackup]_vars

(***************************************************************************)
(* SpecAged: a batch of delete_slide calls made within five minutes on a   *)
(* file that was last saved some time before the batch, the backup         *)
(* directory empty at the start.                                           *)
(***************************************************************************)
\* seconds between the last save of the file and the start of the batch
Ages == {0, 300, 3600}

InitAged ==
    /\ disk = NumberedDeck(MaxDeck)
    /\ mtime = 0
    /\ clock \in Ages
    /\ call = NoCall
    /\ backups = EmptyBackups /\ Alone
    /\ disk0 = disk
    /\ writes = 0
    /\ ncalls = 0
    /\ log = <<>>

AgedDeleteCall ==
    /\ ncalls < MaxDeletes
    /\ \E slide_index \in 0..1 :
            DeleteBegin([ppt_path |-> DeckPath, slide_index |-> slide_index])

\* a hundred seconds pass between two calls, less than 300 s in all
Moment ==
    /\ call.pc = "idle"
    /\ ncalls > 0
    /\ clock % 300 < 200
    /\ clock' = clock + 100
    /\ UNCHANGED <<env, disk, mtime, call, backups, disk0, writes, ncalls, log>>

NextAged ==
    \/ AgedDeleteCall \/ DeleteLoad \/ DeleteBackup \/ DeleteDrop \/ DeleteSave
    \/ Finish
    \/ Moment

SpecAged == InitAged /\ [][NextAged]_vars

(***************************************************************************)
(* SpecFault: one copy_slide_replace_images or                             *)
(* replace_image_on_existing_slide call in which the stamping of any       *)
(* picture and the adding of the label may fail.                           *)
(***************************************************************************)
InitFault ==
    /\ disk \in {Deck(<<TwoPictureSlide>>), Deck(<<LabelledSlide>>)}
    /\ mtime = 0
    /\ clock = 0
    /\ call = NoCall
    /\ backups = EmptyBackups /\ Alone
    /\ disk0 = disk
    /\ writes = 0
    /\ ncalls = 0
    /\ log = <<>>

FaultCopyCall ==
    /\ ncalls = 0
    /\ \E imgs \in SeqImages, f \in FlagChoices :
            CopyBegin([ppt_path |-> DeckPath, slide_index |-> 0, images |-> imgs,
                       auto |-> TRUE, positions |-> <<>>,
                       store_metadata |-> f.store_metadata, add_label |-> f.add_label,
                       base_dir |-> f.base_dir])

FaultReplaceCall ==
    /\ ncalls = 0
    /\ \E img \in ExistingImages, sm \in BOOLEAN, al \in BOOLEAN :
            ReplaceBegin([ppt_path |-> DeckPath, slide_index |-> 0, image |-> img,
                          store_metadata |-> sm, add_label |-> al])

NextFault ==
    \/ FaultCopyCall \/ CopyLoad \/ CopyResolve \/ CopyCount \/ CopyDuplicate
    \/ CopyStrip \/ CopyInsert \/ CopyLabel \/ CopySave
    \/ CopyInsertStampFails \/ CopyLabelFails
    \/ FaultReplaceCall \/ ReplaceLoad \/ ReplacePosition \/ ReplaceStrip
    \/ ReplaceInsert \/ ReplaceLabel \/ ReplaceSave
    \/ ReplaceInsertStampFails \/ ReplaceLabelFails
    \/ Finish

SpecFault == InitFault /\ [][NextFault]_vars

(***************************************************************************)
(* batch_insert_images.py: main(config_path), one action per step.  The    *)
(* script calls delete_slide, copy_slide_replace_images and                *)
(* copy_slide_replace_image, whose steps are the actions above; batch.pc   *)
(* is the script's position, batch.results what the creation loop saw.     *)
(***************************************************************************)
\* os.path.join(base_dir, name) for the names of the configurations
Join(base_dir, name) ==
    IF IsAbs(name) \/ base_dir = "" THEN name
    ELSE CASE name = "a.png" -> "/data/a.png"
           [] name = "b.png" -> "/data/b.png"
           [] OTHER -> name

\* the paths of one entry as both the pre-validation (lines 190-213) and the
\* creation loop (lines 256-262, 286, 313) build them: a dict's path is taken
\* as it is, the others are joined to base_dir unless absolute
spec_paths(image_spec, base_dir) ==
    IF image_spec.kind = "dict" THEN image_spec.files
    ELSE [i \in 1..Len(image_spec.files) |-> Join(base_dir, image_spec.files[i])]

\* mutant: the pre-validation looks at the string entries only
validation_errors_strings_only(images, base_dir) ==
    UNION {{<<i, spec_paths(images[i], base_dir)[n]>> :
                n \in {m \in 1..Len(images[i].files) :
                            ~ImageExists(spec_paths(images[i], base_dir)[m])}} :
           i \in {j \in 1..Len(images) : images[j].kind = "string"}}

\* validation_errors (lines 188-211): every path of every entry that does
\* not exist, with the number of its entry
validation_errors(images, base_dir) ==
    UNION {{<<i, spec_paths(images[i], base_dir)[n]>> :
                n \in {m \in 1..Len(images[i].files) :
                            ~ImageExists(spec_paths(images[i], base_dir)[m])}} :
           i \in 1..Len(images)}

\* the elements of a set of indices in ascending order
Ascending(S) ==
    CHOOSE s \in [1..Cardinality(S) -> S] :
        \A i, j \in 1..Cardinality(S) : i < j => s[i] < s[j]

Reversed(s) == [i \in 1..Len(s) |-> s[Len(s) + 1 - i]]

\* slides_to_delete (line 229)
slides_to_delete(total_slides, preserve_slides) ==
    Ascending({idx \in 0..(total_slides - 1) : ~(idx \in preserve_slides)})

\* sys.exit(code)
Exit(b, code) == [b EXCEPT !.pc = "exit", !.code = code]

\* an exception nothing catches ends the script with a traceback
Crash(b, e) == [b EXCEPT !.pc = "crashed", !.code = 1, !.error = e]

\* the deck of a batch run: a title slide, then templates with one and two
\* pictures in turn, each told by the place of its text box
BatchSlide(n) ==
    LET tag == MkShape("textbox", In014, Hundredths(n), In543, In014, None, "", "",
                       <<"slide">>)
    IN  IF n = 0 THEN MkSlide("Blank", <<tag>>)
        ELSE IF n % 2 = 1 THEN MkSlide("Blank", <<Pic(In014, In096), tag>>)
        ELSE MkSlide("Blank", <<Pic(In057, In096), tag, Pic(In014, In096)>>)

BatchDeck == Deck([i \in 1..(MaxSlides + 1) |-> BatchSlide(i - 1)])

\* an older output file
OldOutput == [present |-> TRUE, content |-> NumberedDeck(1), mtime |-> 0]

\* images lists with their base_dir
AllBatchImages ==
    {[base_dir |-> "", images |-> <<>>],
     [base_dir |-> "", images |-> <<Str("/data/a.png")>>],
     [base_dir |-> "", images |-> <<Str("/data/a.png"), Str("b.png")>>],
     [base_dir |-> "", images |-> <<Str("b.png"), Lst(<<"b.png", "/data/a.png">>)>>],
     [base_dir |-> "", images |-> <<Str("/data/a.png"), Lst(<<"b.png", "/data/a.png">>),
                                    Str("b.png")>>],
     [base_dir |-> "", images |-> <<Str("/data/a.png"), Lst(<<>>), Str("b.png")>>],
     [base_dir |-> "", images |-> <<Str("/data/a.png"), Str("y.png")>>],
     [base_dir |-> "", images |-> <<Lst(<<"b.png", "/data/x.png">>), Str("b.png")>>],
     [base_dir |-> "", images |-> <<Dct("b.png"), Dct("/data/a.png")>>],
     [base_dir |-> "", images |-> <<Str("/data/a.png"), Dct("y.png")>>],
     [base_dir |-> "", images |-> <<Str("b.png"), Str("/data/a.png"), Str("b.png")>>],
     [base_dir |-> "/data", images |-> <<Str("a.png"), Str("a.png")>>],
     [base_dir |-> "/data", images |-> <<Str("a.png"), Dct("a.png")>>],
     [base_dir |-> "/data", images |-> <<Str("a.png"), Lst(<<"a.png", "b.png">>)>>],
     [base_dir |-> "", images |-> <<Str("b.png"), Str("/data/a.png"),
                                    Lst(<<"b.png", "/data/a.png">>), Str("b.png")>>]}

BatchImages == {c \in AllBatchImages : Len(c.images) <= MaxSpecs}

BatchConfigs ==
    {[presentation |-> DeckPath, template_slide |-> t, preserve_slides |-> ps,
      images |-> c.images, base_dir |-> c.base_dir, output_path |-> o] :
        t \in 0..(MaxSlides + 1), ps \in SUBSET (0..MaxSlides),
        c \in BatchImages, o \in {None, OutPath}}

\* config = yaml.safe_load(f); validate_config(config, config_path)
\* (lines 104-115, 28-98)
BatchStart ==
    /\ batch.pc = "none" /\ call.pc = "idle"
    /\ \E config \in BatchConfigs :
        LET b == [NoBatch EXCEPT !.config = config, !.ppt_file = config.presentation]
        IN  batch' = IF \/ config.template_slide < 0
                        \/ Len(config.images) = 0
                        \/ ~PptExists(config.presentation)
                     THEN Exit(b, 1)
                     ELSE [b EXCEPT !.pc = "output"]
    /\ UNCHANGED <<disk, mtime, call, backups, clock, disk0, writes, ncalls, log, out, other>>

\* output_path handling up to the backup of an existing output file
\* (lines 127-147), the backup succeeding
BatchOutput ==
    /\ batch.pc = "output"
    /\ LET output_path == batch.config.output_path
       IN  IF output_path = None
           THEN /\ batch' = [batch EXCEPT !.pc = "template"]
                /\ UNCHANGED backups
           ELSE IF output_path = batch.ppt_file
           THEN /\ batch' = Exit(batch, 1)
                /\ UNCHANGED backups
           ELSE IF PptExists(output_path)
           THEN /\ backups' = backup_presentation(backups, Basename(output_path),
                                    Stored(output_path), StoredMtime(output_path), clock)
                /\ batch' = [batch EXCEPT !.pc = "copy",
                                !.warnings = batch.warnings \cup {"output exists"}]
           ELSE /\ batch' = [batch EXCEPT !.pc = "copy"]
                /\ UNCHANGED backups
    /\ UNCHANGED <<disk, mtime, call, clock, disk0, writes, ncalls, log, out, other>>

\* the backup of the output file raising while it copies into category
\* k + 1: the exception is caught, a warning printed (lines 144-149)
BatchOutputBackupFails ==
    /\ batch.pc = "output"
    /\ batch.config.output_path # None
    /\ batch.config.output_path # batch.ppt_file
    /\ PptExists(batch.config.output_path)
    /\ \E k \in 0..(Len(CategoryOrder) - 1) :
            backups' = backup_categories(backups, Basename(batch.config.output_path),
                            Stored(batch.config.output_path),
                            StoredMtime(batch.config.output_path), clock, k)
    /\ batch' = [batch EXCEPT !.pc = "copy",
                    !.warnings = batch.warnings \cup {"output exists", "backup failed"}]
    /\ UNCHANGED <<disk, mtime, call, clock, disk0, writes, ncalls, log, out, other>>

\* shutil.copy2(ppt_file, output_path); ppt_file = output_path (lines 152-160):
\* the copy keeps the template's modification time
BatchCopyTemplate ==
    /\ batch.pc = "copy"
    /\ out' = [present |-> TRUE, content |-> Stored(batch.ppt_file),
               mtime |-> StoredMtime(batch.ppt_file)]
    /\ batch' = [batch EXCEPT !.pc = "template", !.ppt_file = batch.config.output_path]
    /\ UNCHANGED <<disk, mtime, call, backups, clock, disk0, writes, ncalls, log, other>>

\* the copy raising: "[ERROR] Failed to copy template", sys.exit(1)
\* (lines 155-157)
BatchCopyTemplateFails ==
    /\ batch.pc = "copy"
    /\ batch' = Exit(batch, 1)
    /\ UNCHANGED <<disk, mtime, call, backups, clock, disk0, writes, ncalls, log, out, other>>

\* the template slide exists and has pictures (lines 163-184)
BatchTemplate ==
    /\ batch.pc = "template"
    /\ LET prs == Stored(batch.ppt_file)
           template_slide_index == batch.config.template_slide
       IN  batch' =
            IF template_slide_index >= NumSlides(prs) THEN Exit(batch, 1)
            ELSE IF get_all_image_positions(prs, template_slide_index) = <<>>
                 THEN Exit(batch, 1)
            ELSE IF ~(template_slide_index \in batch.config.preserve_slides)
                 THEN [batch EXCEPT !.pc = "prevalidate",
                          !.warnings = batch.warnings \cup {"template not preserved"}]
            ELSE [batch EXCEPT !.pc = "prevalidate"]
    /\ UNCHANGED <<disk, mtime, call, backups, clock, disk0, writes, ncalls, log, out, other>>

\* Step 0: every image of every entry must exist (lines 186-221)
BatchPrevalidate ==
    /\ batch.pc = "prevalidate"
    /\ batch' = IF validation_errors(batch.config.images, batch.config.base_dir) # {}
                THEN Exit(batch, 1)
                ELSE [batch EXCEPT !.pc = "collect"]
    /\ UNCHANGED <<disk, mtime, call, backups, clock, disk0, writes, ncalls, log, out, other>>

\* prs = Presentation(ppt_file); slides_to_delete, taken in reverse
\* (lines 225-233)
BatchCollect ==
    /\ batch.pc = "collect"
    /\ batch' = [batch EXCEPT !.pc = "delete",
                    !.to_delete = Reversed(slides_to_delete(NumSlides(Stored(batch.ppt_file)),
                                                            batch.config.preserve_slides))]
    /\ UNCHANGED <<disk, mtime, call, backups, clock, disk0, writes, ncalls, log, out, other>>

\* delete_slide(ppt_file, slide_idx, backup_base=backup_dir) is called
\* (line 234)
BatchDelete ==
    /\ batch.pc = "delete" /\ call.pc = "idle"
    /\ batch.to_delete # <<>>
    /\ DeleteBegin([ppt_path |-> batch.ppt_file, slide_index |-> Head(batch.to_delete)])

\* delete_slide returned: the loop goes on
BatchDeleteReturn ==
    /\ batch.pc = "delete" /\ call.pc = "done"
    /\ batch' = [batch EXCEPT !.to_delete = Tail(batch.to_delete)]
    /\ call' = NoCall
    /\ UNCHANGED <<disk, mtime, backups, clock, disk0, writes, ncalls, log, out, other>>

\* delete_slide raised: nothing catches the exception in main
BatchDeleteRaised ==
    /\ batch.pc = "delete" /\ call.pc = "raised"
    /\ batch' = Crash(batch, call.err)
    /\ UNCHANGED <<disk, mtime, call, backups, clock, disk0, writes, ncalls, log, out, other>>

\* mutant: the creation loop starts at the first entry of images
BatchDeleteDoneFromFirst ==
    /\ batch.pc = "delete" /\ call.pc = "idle"
    /\ batch.to_delete = <<>>
    /\ batch' = [batch EXCEPT !.pc = "create", !.k = 1]
    /\ UNCHANGED <<disk, mtime, call, backups, clock, disk0, writes, ncalls, log, out, other>>

\* the delete loop is over; remaining_images = images[1:] (lines 238-245):
\* batch.k is the 1-based place in images of the entry the loop is at
BatchDeleteDone ==
    /\ batch.pc = "delete" /\ call.pc = "idle"
    /\ batch.to_delete = <<>>
    /\ batch' = [batch EXCEPT !.pc = "create", !.k = 2]
    /\ UNCHANGED <<disk, mtime, call, backups, clock, disk0, writes, ncalls, log, out, other>>

\* the entry the creation loop is at, and its paths
BatchSpec == batch.config.images[batch.k]

BatchPaths == spec_paths(BatchSpec, batch.config.base_dir)

InCreation == batch.pc = "create" /\ call.pc = "idle" /\ batch.k <= Len(batch.config.images)

\* an entry the loop passes over with "continue": an empty list (warning,
\* lines 251-254) or an entry with a missing image (one error per missing
\* image of a list, lines 265-273; one for a dict or string, 290-293, 316-319)
BatchSkip ==
    /\ InCreation
    /\ BatchSpec.files = <<>> \/ ~AllExist(BatchPaths)
    /\ batch' =
         IF BatchSpec.files = <<>>
         THEN [batch EXCEPT !.k = batch.k + 1,
                            !.warnings = batch.warnings \cup {"empty list"}]
         ELSE [batch EXCEPT !.k = batch.k + 1,
                  !.error_count = batch.error_count
                        + Cardinality({n \in 1..Len(BatchPaths) : ~ImageExists(BatchPaths[n])})]
    /\ UNCHANGED <<disk, mtime, call, backups, clock, disk0, writes, ncalls, log, out, other>>

\* mutant: the template index is lowered by the number of deleted slides
\* below it
BatchCreateMultiAdjusted ==
    /\ InCreation
    /\ BatchSpec.kind = "list" /\ BatchSpec.files # <<>> /\ AllExist(BatchPaths)
    /\ CopyBegin([ppt_path |-> batch.ppt_file,
                  slide_index |-> batch.config.template_slide
                        - Cardinality({i \in 0..(batch.config.template_slide - 1) :
                                            ~(i \in batch.config.preserve_slides)}),
                  images |-> BatchPaths, auto |-> TRUE, positions |-> <<>>,
                  store_metadata |-> TRUE, add_label |-> FALSE, base_dir |-> None])

\* copy_slide_replace_images(ppt_file, template_slide_index, image_paths,
\* positions=None, store_metadata=True, add_label=False) (lines 275-284)
BatchCreateMulti ==
    /\ InCreation
    /\ BatchSpec.kind = "list" /\ BatchSpec.files # <<>> /\ AllExist(BatchPaths)
    /\ CopyBegin([ppt_path |-> batch.ppt_file,
                  slide_index |-> batch.config.template_slide,
                  images |-> BatchPaths, auto |-> TRUE, positions |-> <<>>,
                  store_metadata |-> TRUE, add_label |-> FALSE, base_dir |-> None])

\* copy_slide_replace_image(ppt_file, template_slide_index, image_path,
\* position=None, store_metadata=True, add_label=True) (lines 295-304,
\* 321-330)
BatchCreateSingle ==
    /\ InCreation
    /\ BatchSpec.kind \in {"dict", "string"} /\ AllExist(BatchPaths)
    /\ CopySingleBegin([ppt_path |-> batch.ppt_file,
                        slide_index |-> batch.config.template_slide,
                        new_image_path |-> BatchPaths[1],
                        auto |-> TRUE, position |-> InchPos(0, 0),
                        store_metadata |-> TRUE, add_label |-> TRUE, base_dir |-> None])

\* the call returned: success_count += 1
BatchCreateReturn ==
    /\ batch.pc = "create" /\ call.pc = "done"
    /\ batch' = [batch EXCEPT !.k = batch.k + 1,
                    !.success_count = batch.success_count + 1,
                    !.results = Append(batch.results,
                                       [k |-> batch.k, ok |-> TRUE, ret |-> call.ret,
                                        err |-> NoErr])]
    /\ call' = NoCall
    /\ UNCHANGED <<disk, mtime, backups, clock, disk0, writes, ncalls, log, out, other>>

\* the call raised: except Exception, error_count += 1, next entry
BatchCreateRaised ==
    /\ batch.pc = "create" /\ call.pc = "raised"
    /\ batch' = [batch EXCEPT !.k = batch.k + 1,
                    !.error_count = batch.error_count + 1,
                    !.results = Append(batch.results,
                                       [k |-> batch.k, ok |-> FALSE, ret |-> 0,
                                        err |-> call.err])]
    /\ call' = NoCall
    /\ UNCHANGED <<disk, mtime, backups, clock, disk0, writes, ncalls, log, out, other>>

\* the summary; sys.exit(1) if any error was counted (lines 341-350)
BatchSummary ==
    /\ batch.pc = "create" /\ call.pc = "idle"
    /\ batch.k > Len(batch.config.images)
    /\ batch' = Exit(batch, IF batch.error_count > 0 THEN 1 ELSE 0)
    /\ UNCHANGED <<disk, mtime, call, backups, clock, disk0, writes, ncalls, log, out, other>>

OSError == [type |-> "OSError", path |-> "", images |-> 0, positions |-> 0]

\* mutant: delete_slide catches the failure of the backup and goes on
DeleteBackupFailsSwallowed ==
    /\ call.op = "delete_slide" /\ call.pc = "backup"
    /\ \E k \in 0..(Len(CategoryOrder) - 1) :
            backups' = backup_categories(backups, Basename(call.ppt_path),
                            Stored(call.ppt_path), StoredMtime(call.ppt_path), clock, k)
    /\ call' = [call EXCEPT !.pc = "drop", !.err = OSError]
    /\ UNCHANGED <<env, disk, mtime, clock, disk0, writes, ncalls, log>>

\* backup_presentation raising at line 151 of slide_utils.py while it copies
\* into category k + 1 (makedirs or shutil.copy2 failing): delete_slide has
\* no handler, the exception leaves it
DeleteBackupFails ==
    /\ call.op = "delete_slide" /\ call.pc = "backup"
    /\ \E k \in 0..(Len(CategoryOrder) - 1) :
            backups' = backup_categories(backups, Basename(call.ppt_path),
                            Stored(call.ppt_path), StoredMtime(call.ppt_path), clock, k)
    /\ call' = Raise(call, OSError)
    /\ UNCHANGED <<env, disk, mtime, clock, disk0, writes, ncalls, log>>

(***************************************************************************)
(* SpecBatch: one run of batch_insert_images.py on the batch deck, with or *)
(* without an older output file, the backups possibly failing.             *)
(***************************************************************************)
InitBatch ==
    /\ disk = BatchDeck
    /\ mtime = 0
    /\ clock = 0
    /\ call = NoCall
    /\ backups = EmptyBackups
    /\ out \in {NoFile, OldOutput}
    /\ batch = NoBatch
    /\ other = NoCall
    /\ disk0 = disk
    /\ writes = 0
    /\ ncalls = 0
    /\ log = <<>>

NextBatch ==
    \/ BatchStart \/ BatchOutput \/ BatchOutputBackupFails
    \/ BatchCopyTemplate \/ BatchCopyTemplateFails
    \/ BatchTemplate \/ BatchPrevalidate \/ BatchCollect
    \/ BatchDelete \/ DeleteLoad \/ DeleteBackup \/ DeleteBackupFails
    \/ DeleteDrop \/ DeleteSave
    \/ BatchDeleteReturn \/ BatchDeleteRaised \/ BatchDeleteDone
    \/ BatchSkip \/ BatchCreateMulti \/ BatchCreateSingle
    \/ CopyLoad \/ CopyResolve \/ CopyCount \/ CopyDuplicate
    \/ CopyStrip \/ CopyInsert \/ CopyLabel \/ CopySave
    \/ BatchCreateReturn \/ BatchCreateRaised \/ BatchSummary

SpecBatch == InitBatch /\ [][NextBatch]_vars

(***************************************************************************)
(* Properties.                                                             *)
(***************************************************************************)
IsCopy == call.op = "copy_slide_replace_images"

Ended == call.pc \in {"done", "raised"}

\* the input files of the current call all exist
FilesExist == PptExists(call.ppt_path) /\ AllExist(call.images)

\* the positions the call works with are known: given by the caller, or
\* auto-detected from the template (never empty once detected)
PositionsKnown == ~call.auto \/ call.positions # <<>>

\* the stored file is what it was when the call started and was not written
FileUntouched == disk = disk0 /\ writes = 0

\* the document in memory, if loaded, has as many slides as the stored one had
NoSlideAdded == call.loaded => NumSlides(call.prs) = NumSlides(disk0)

\* C1: a copy_slide_replace_images call whose number of images differs from
\* its number of positions (explicit, or detected from the template) never
\* duplicates a slide and never writes the file, and when it ends it has
\* raised: the ValueError naming both counts when the input files exist (a
\* missing file is reported first, C2).
C1_MismatchFailsBeforeDuplicate ==
    (IsCopy /\ PositionsKnown /\ Len(call.images) # Len(call.positions)) =>
        /\ call.pc \in {"load", "resolve", "count", "raised"}
        /\ FileUntouched
        /\ NoSlideAdded
        /\ (call.pc = "raised" /\ FilesExist) =>
                call.err = [type |-> "ValueError", path |-> "count mismatch",
                            images |-> Len(call.images),
                            positions |-> Len(call.positions)]

\* a call with one image against a two-picture template has raised the
\* ValueError naming 1 and 2
C1_Witness ==
    /\ IsCopy /\ call.auto /\ call.pc = "raised"
    /\ call.err.type = "ValueError" /\ call.err.images = 1 /\ call.err.positions = 2
    /\ NumSlides(call.prs) = NumSlides(disk0)

\* C2: a copy_slide_replace_images call whose document or one of whose images
\* does not exist raises FileNotFoundError at once, naming the document, or
\* else the first missing image in list order, before the document is loaded;
\* the stored file is unchanged, whatever the counts and the template are.
C2_MissingFileFailsFirst ==
    (IsCopy /\ ~FilesExist) =>
        /\ call.pc = "raised"
        /\ call.err.type = "FileNotFoundError"
        /\ IF ~PptExists(call.ppt_path) THEN call.err.path = call.ppt_path
           ELSE \E i \in 1..Len(call.images) :
                    /\ call.err.path = call.images[i]
                    /\ ~ImageExists(call.images[i])
                    /\ \A j \in 1..(i - 1) : ImageExists(call.images[j])
        /\ ~call.loaded
        /\ FileUntouched

\* two images missing, the positions given do not match the images, and the
\* template has no picture: the error names the first missing image
C2_Witness ==
    /\ IsCopy /\ call.pc = "raised"
    /\ call.images = <<"y.png", "/data/x.png">>
    /\ call.err.path = "y.png"
    /\ ~call.auto /\ Len(call.positions) = 1
    /\ ValidIndex(disk, call.slide_index)
    /\ Pictures(SlideAt(disk, call.slide_index).shapes) = <<>>

\* the template slide of the current call, in the file as stored at its start
TemplateExists == ValidIndex(disk0, call.slide_index)

TemplatePictures == Pictures(SlideAt(disk0, call.slide_index).shapes)

\* C3: with positions omitted and a template slide without pictures,
\* copy_slide_replace_images raises the ValueError about missing placeholders
\* as soon as it has looked for them: no slide is added, nothing is inserted,
\* the file is not saved.
C3_NoPlaceholderFails ==
    (IsCopy /\ call.auto /\ FilesExist /\ TemplateExists
        /\ call.pc \notin {"load", "resolve"}) =>
        (TemplatePictures = <<>> =>
            /\ call.pc = "raised"
            /\ call.err = [type |-> "ValueError", path |-> "no pictures",
                           images |-> 0, positions |-> 0]
            /\ FileUntouched
            /\ NoSlideAdded
            /\ call.prs = disk0)

\* the call passed no image at all, so a default insertion would have had
\* nothing to mismatch
C3_Witness ==
    /\ IsCopy /\ call.auto /\ call.pc = "raised" /\ call.images = <<>>
    /\ TemplateExists /\ TemplatePictures = <<>>
    /\ call.err.type = "ValueError"

\* C4: in each of the four workflow operations the file at ppt_path is
\* written by the final save only: until the call has returned the stored file
\* is what it was at the start of the call (also after an error, and at every
\* point where the process could stop), and a returned call has saved at most
\* once, the stored file being the document it held in memory.
C4_OnlyFinalSaveWrites ==
    /\ call.pc \notin {"idle", "done"} => FileUntouched
    /\ call.pc = "done" =>
        /\ writes <= 1
        /\ writes = 0 => disk = disk0
        /\ writes = 1 => disk = call.prs
        /\ call.op \in {"copy_slide_replace_images", "replace_image_on_existing_slide",
                        "delete_slide"} => writes = 1

\* replace_image_on_existing_slide about to save: the slide is changed in
\* memory, the file is not
C4_Witness ==
    /\ call.op = "replace_image_on_existing_slide" /\ call.pc = "save"
    /\ call.prs # disk /\ disk = disk0

\* the slide added by the current call, in the document in memory
NewSlide == call.prs.rels[call.new_slide]

SameGeometry(s1, s2) ==
    /\ s1.left = s2.left /\ s1.top = s2.top
    /\ s1.width = s2.width /\ s1.height = s2.height

\* C5: the slide duplicate_slide has just returned has the layout of its
\* source, as many shapes as its source, and shape by shape, in order, the
\* source's kind of shape and geometry.
C5_DuplicateEqualsSource ==
    (IsCopy /\ call.pc = "strip") =>
        LET source == SlideAt(call.prs, call.slide_index)
        IN  /\ NewSlide.layout = source.layout
            /\ Len(NewSlide.shapes) = Len(source.shapes)
            /\ \A i \in 1..Len(source.shapes) :
                    i <= Len(NewSlide.shapes) =>
                        /\ NewSlide.shapes[i].kind = source.shapes[i].kind
                        /\ SameGeometry(NewSlide.shapes[i], source.shapes[i])

\* the slides that were stored at the start of the call are, index by index,
\* the slides of prs
KeepsSlides(prs) ==
    /\ NumSlides(prs) = NumSlides(disk0) + 1
    /\ \A i \in 0..(NumSlides(disk0) - 1) : SlideAt(prs, i) = SlideAt(disk0, i)

\* the calls of the log before the j-th that returned
ReturnedBefore(j) == {h \in 1..(j - 1) : log[h].ok}

\* C6: once copy_slide_replace_images has duplicated the template, the
\* document has one slide more, the new slide is the last one and every slide
\* stored before keeps its index; the index returned is the slide count before
\* the call.  Over successive calls on the same file the returned indices are
\* n, n+1, ... (n the initial count) and the template index designates the
\* same unchanged slide after every call.
C6_AppendsAtEnd ==
    /\ (IsCopy /\ call.pc \in {"strip", "insert", "label", "save", "done"}) =>
            /\ KeepsSlides(call.prs)
            /\ call.prs.sldIdLst[NumSlides(disk0) + 1] = call.new_slide
            /\ call.new_slide_index = NumSlides(disk0)
    /\ (IsCopy /\ call.pc = "done") =>
            /\ call.ret = NumSlides(disk0)
            /\ KeepsSlides(disk)
    /\ \A j \in 1..Len(log) :
            log[j].ok =>
                /\ log[j].ret = log[1].before + Cardinality(ReturnedBefore(j))
                /\ log[j].after = log[j].before + 1
                /\ \A h \in ReturnedBefore(j) :
                        log[h].slide_index = log[j].slide_index =>
                            log[h].template = log[j].template

\* two calls on the template at index 0 of a two-slide deck have returned 2
\* and 3
C6_Witness ==
    /\ Len(log) = 2
    /\ log[1].ok /\ log[2].ok
    /\ log[1].slide_index = 0 /\ log[2].slide_index = 0
    /\ log[1].before = 2 /\ log[1].ret = 2 /\ log[2].ret = 3
    /\ SlideAt(disk, 0) = TwoPictureSlide
    /\ NumSlides(disk) = 4

\* the slide a returned copy_slide_replace_images call designates, as stored
ReturnedSlide == SlideAt(disk, call.ret)

\* the EMU value v is the inch value x truncated: x - 1 EMU < v <= x (x.num
\* is the EMU count whose quotient by 914400 the float x is)
TruncationOf(v, x) == v <= x.num /\ x.num - 1 <= v

\* C7: after a copy_slide_replace_images call with add_label false has
\* returned, the pictures of the new slide are exactly the images passed, in
\* order, the i-th at positions[i] (Inches(): inches truncated to whole EMU);
\* none shows the template's image; no shape of the slide has a text frame.
C7_NewSlideHoldsOnlyTheImages ==
    (IsCopy /\ call.pc = "done" /\ ~call.add_label) =>
        LET pics == Pictures(ReturnedSlide.shapes)
        IN  /\ Len(pics) = Len(call.images)
            /\ Len(pics) = Len(call.positions)
            /\ \A i \in 1..Len(pics) :
                    /\ pics[i].img = call.images[i]
                    /\ pics[i].img \notin {p.img : p \in {TemplatePictures[q] :
                                                q \in 1..Len(TemplatePictures)}}
                    /\ TruncationOf(pics[i].left, call.positions[i].left)
                    /\ TruncationOf(pics[i].top, call.positions[i].top)
                    /\ TruncationOf(pics[i].width, call.positions[i].width)
                    /\ TruncationOf(pics[i].height, call.positions[i].height)
            /\ \A i \in 1..Len(ReturnedSlide.shapes) :
                    ~HasTextFrame(ReturnedSlide.shapes[i])

\* two images at explicit positions on a copy of the template that has a
\* title, a text box and two pictures of its own
C7_Witness ==
    /\ IsCopy /\ call.pc = "done" /\ ~call.add_label /\ ~call.auto
    /\ Len(call.images) = 2
    /\ SlideAt(disk0, call.slide_index) = TwoPictureSlide
    /\ Len(Pictures(ReturnedSlide.shapes)) = 2

RECURSIVE InsertInReadingOrder(_, _)
\* a picture placed after the pictures whose (rounded top, rounded left) is
\* not greater than its own
InsertInReadingOrder(sorted, picture) ==
    IF sorted = <<>> THEN <<picture>>
    ELSE IF KeyLeq(SortKey(PositionInfo(Head(sorted))), SortKey(PositionInfo(picture)))
         THEN <<Head(sorted)>> \o InsertInReadingOrder(Tail(sorted), picture)
         ELSE <<picture>> \o sorted

RECURSIVE ReadingOrder(_)
\* pictures top-to-bottom, then left-to-right
ReadingOrder(pictures) ==
    IF pictures = <<>> THEN <<>>
    ELSE InsertInReadingOrder(ReadingOrder(SubSeq(pictures, 1, Len(pictures) - 1)),
                              pictures[Len(pictures)])

\* C8: after a copy_slide_replace_images call with positions omitted has
\* returned, the i-th image passed is the i-th picture of the new slide and
\* has the geometry (left, top, width, height) of the i-th picture of the
\* template in reading order.
C8_AutoGeometryIsTemplateGeometry ==
    (IsCopy /\ call.pc = "done" /\ call.auto) =>
        LET pics == Pictures(ReturnedSlide.shapes)
            template == ReadingOrder(TemplatePictures)
        IN  /\ Len(pics) = Len(template)
            /\ \A i \in 1..Len(pics) :
                    /\ pics[i].img = call.images[i]
                    /\ SameGeometry(pics[i], template[i])

IsPositions == call.op = "get_all_image_positions" /\ call.pc = "done"

\* the positions of the pictures of the slide asked about, in shape-tree order
TreePositions ==
    LET pics == Pictures(SlideAt(disk, call.slide_index).shapes)
    IN  [i \in 1..Len(pics) |-> PositionInfo(pics[i])]

\* r tenths of an inch is a nearest tenth to the inch value x
NearestTenth(r, x) ==
    /\ 2 * (x.num - r * TenthInch) <= TenthInch
    /\ 2 * (r * TenthInch - x.num) <= TenthInch

RECURSIVE KeysOf(_)
\* the sort keys of the geometries ps, one by one
KeysOf(ps) == IF ps = <<>> THEN <<>> ELSE <<SortKey(Head(ps))>> \o KeysOf(Tail(ps))

\* the elements of ps whose key (keys[i] for ps[i]) is k, in their order in ps
WithKey(ps, keys, k) ==
    LET at == SelectSeq([i \in 1..Len(ps) |-> i], LAMBDA i : keys[i] = k)
    IN  [n \in 1..Len(at) |-> ps[at[n]]]

C10_SameRowLeftToRight ==
    IsPositions =>
        \A i, j \in 1..Len(call.positions) :
            LET p == call.positions[i]
                q == call.positions[j]
            IN  (/\ p.top.num - q.top.num < TenthInch
                 /\ q.top.num - p.top.num < TenthInch
                 /\ p.left.num < q.left.num) => i < j

IsRemoval == call.op = "remove_pictures_from_slide"

\* the shapes of the slide of the current call, at its start and in memory
ShapesBefore == SlideAt(disk0, call.slide_index).shapes

ShapesNow == SlideAt(call.prs, call.slide_index).shapes

\* C11: once remove_pictures_from_slide has returned, the slide has no
\* picture, the count returned is the number of pictures it had, and its
\* shapes are the former non-picture shapes, unchanged and in their order;
\* after a save, get_all_image_positions on the slide returns the empty
\* list and does not raise.
C11_RemovesEveryPicture ==
    (IsRemoval /\ call.pc # "idle") =>
        /\ \A i \in 1..Len(ShapesNow) : ShapesNow[i].kind # "picture"
        /\ call.ret = Cardinality({i \in 1..Len(ShapesBefore) :
                                        ShapesBefore[i].kind = "picture"})
        /\ Len(ShapesNow) = Len(ShapesBefore) - call.ret
        /\ \A i \in 1..Len(ShapesNow) :
                \E j \in i..Len(ShapesBefore) :
                    /\ ShapesBefore[j] = ShapesNow[i]
                    /\ Cardinality({h \in 1..j : ShapesBefore[h].kind # "picture"}) = i
        /\ call.pc # "raised"
        /\ call.pc = "done" => call.positions = <<>>

\* two pictures around a text box were removed, the text box is left, and the
\* positions of the saved slide are empty
C11_Witness ==
    /\ IsRemoval /\ call.pc = "done"
    /\ call.ret = 2
    /\ Len(ShapesBefore) = 3 /\ ShapesBefore[2] = TextBoxShape
    /\ SlideAt(disk, call.slide_index).shapes = <<TextBoxShape>>
    /\ call.positions = <<>>

IsGetPosition == call.op = "get_image_position"

\* the pictures of the slide asked about, in shape-tree order
TreePictures == SelectSeq(SlideAt(disk, call.slide_index).shapes,
                          LAMBDA sh : sh.kind = "picture")

\* C12: get_image_position on an existing file raises IndexError for an
\* invalid slide_index, else ValueError when the slide has no picture
\* (whatever image_index), else IndexError when image_index is outside
\* 0..pictures-1, and else returns left, top, width and height of the
\* image_index-th picture in shape-tree order, as EMU / 914400; the stored
\* document is never changed.
C12_PositionOfNthPictureInTreeOrder ==
    (IsGetPosition /\ PptExists(call.ppt_path)) =>
        /\ FileUntouched
        /\ call.pc \in {"done", "raised"}
        /\ IF ~(0 <= call.slide_index /\ call.slide_index < Len(disk.sldIdLst))
           THEN call.pc = "raised" /\ call.err.type = "IndexError"
           ELSE IF Len(TreePictures) = 0
           THEN call.pc = "raised" /\ call.err.type = "ValueError"
           ELSE IF ~(0 <= call.i /\ call.i < Len(TreePictures))
           THEN call.pc = "raised" /\ call.err.type = "IndexError"
           ELSE /\ call.pc = "done"
                /\ Len(call.positions) = 1
                /\ call.positions[1].left.num = TreePictures[call.i + 1].left
                /\ call.positions[1].top.num = TreePictures[call.i + 1].top
                /\ call.positions[1].width.num = TreePictures[call.i + 1].width
                /\ call.positions[1].height.num = TreePictures[call.i + 1].height

\* image_index 0 on a slide whose first picture in the shape tree is the
\* second in reading order: the first of the tree is returned
C12_Witness ==
    /\ IsGetPosition /\ call.pc = "done" /\ call.i = 0
    /\ Len(TreePictures) = 2
    /\ call.positions[1].left.num = TreePictures[1].left
    /\ get_all_image_positions(disk, call.slide_index)[1].left.num = TreePictures[2].left
    /\ TreePictures[1].left # TreePictures[2].left

\* the calls logged so far are successful delete_slide calls, made in
\* strictly descending order of index
DescendingDeletes ==
    /\ \A j \in 1..Len(log) : log[j].op = "delete_slide" /\ log[j].ok
    /\ \A j \in 1..(Len(log) - 1) : log[j].slide_index > log[j + 1].slide_index

DeletedSet == {log[j].slide_index : j \in 1..Len(log)}

\* the original indices that were not deleted, n the original slide count
KeptBelow(n, i) == {k \in 0..(i - 1) : k \notin DeletedSet}

\* C13: after delete_slide calls made one at a time in descending order of
\* index, the deck holds exactly the slides whose original indices were not
\* deleted, in their original order: the original slide i that was kept is
\* at the index that counts the kept slides before it.
C13_DescendingDeletesKeepTheRest ==
    (call.pc = "idle" /\ Len(log) > 0 /\ DescendingDeletes) =>
        LET n == log[1].before
        IN  /\ NumSlides(disk) = n - Cardinality(DeletedSet)
            /\ Cardinality(DeletedSet) = Len(log)
            /\ \A i \in 0..(n - 1) :
                    i \notin DeletedSet =>
                        /\ Cardinality(KeptBelow(n, i)) < NumSlides(disk)
                        /\ SlideAt(disk, Cardinality(KeptBelow(n, i))) = NumberedSlide(i)

\* slides 3 and 1 deleted in that order from a four-slide deck: slides 0 and
\* 2 are left
C13_Witness ==
    /\ call.pc = "idle" /\ Len(log) = 2 /\ DescendingDeletes
    /\ log[1].before = 4
    /\ log[1].slide_index = 3 /\ log[2].slide_index = 1
    /\ SlidesOf(disk) = <<NumberedSlide(0), NumberedSlide(2)>>

\* the second of the two calls of SpecOne has ended
BothEnded == Len(log) = 2 /\ ncalls = 2 /\ call.pc \in {"done", "raised"}

AbsolutePath(img_path) ==
    CASE img_path = "b.png" -> "/work/b.png"
      [] img_path = "y.png" -> "/work/y.png"
      [] OTHER -> img_path

\* C15: after a copy_slide_replace_images call with store_metadata true has
\* returned, the i-th picture of the new slide has descr = the absolute path
\* of the i-th image passed and title = its basename, whether the path was
\* passed absolute or relative.
C15_ProvenanceIsAbsolutePath ==
    (IsCopy /\ call.pc = "done" /\ call.store_metadata) =>
        LET pics == Pictures(ReturnedSlide.shapes)
        IN  /\ Len(pics) = Len(call.images)
            /\ \A i \in 1..Len(pics) :
                    /\ pics[i].descr = AbsolutePath(call.images[i])
                    /\ pics[i].title = Basename(call.images[i])

\* the text-bearing shapes of the slide a returned call designates
TextShapes(shapes) == SelectSeq(shapes, LAMBDA sh : sh.kind \in {"textbox", "placeholder"})

\* what a label line must show for the path p
ShownPath(p, base_dir) ==
    IF base_dir = "/data" /\ p = "/data/a.png" THEN "a.png"
    ELSE IF base_dir = "/data" /\ p = "/data/x.png" THEN "x.png"
    ELSE p

IsReplace == call.op = "replace_image_on_existing_slide"

\* the free (non-placeholder) text boxes among shapes
FreeTextBoxes(shapes) == SelectSeq(shapes, LAMBDA sh : sh.kind = "textbox")

\* the slide of the current call, as stored at its start and as stored now
SlideBefore == SlideAt(disk0, call.slide_index)

SlideAfter == SlideAt(disk, call.slide_index)

\* C17: after replace_image_on_existing_slide has returned for a slide that
\* had one picture, at geometry G, and one free text box, the slide has
\* exactly one picture, the new image at G, the old text box is gone, and the
\* slide has exactly one free text box (the new label) when add_label is true
\* and none when it is false.
C17_ReplaceKeepsOneLabel ==
    (/\ IsReplace /\ call.pc = "done"
     /\ Len(Pictures(SlideBefore.shapes)) = 1
     /\ Len(FreeTextBoxes(SlideBefore.shapes)) = 1) =>
        LET pics == Pictures(SlideAfter.shapes)
            boxes == FreeTextBoxes(SlideAfter.shapes)
            old == FreeTextBoxes(SlideBefore.shapes)[1]
        IN  /\ Len(pics) = 1
            /\ pics[1].img = call.images[1]
            /\ SameGeometry(pics[1], Pictures(SlideBefore.shapes)[1])
            /\ \A i \in 1..Len(boxes) : boxes[i] # old
            /\ Len(boxes) = IF call.add_label THEN 1 ELSE 0

IsLabel == call.op = "add_label_to_existing_slide"

\* the tag expected for the picture at 1-based position n
ExpectedTag(n) == IF n = 1 THEN "[placeholder 1]"
                  ELSE IF n = 2 THEN "[placeholder 2]"
                  ELSE IF n = 3 THEN "[placeholder 3]" ELSE "[placeholder 4+]"

\* the provenance paths stored on the pictures of the slide, as stored
StoredPaths ==
    LET pics == Pictures(SlideBefore.shapes)
    IN  [i \in 1..Len(pics) |-> pics[i].descr]

\* the same paths, relative to base_dir when it is given and they are absolute
ShownPaths == [i \in 1..Len(StoredPaths) |-> ShownPath(StoredPaths[i], call.base_dir)]

\* a returned add_label_to_existing_slide call did what the claim says, the
\* line of the i-th picture with provenance being paths[i]
LabelOutcome(paths) ==
    LET pics == Pictures(SlideBefore.shapes)
        n == Len(SlideBefore.shapes)
    IN  IF Len(pics) = 0
        THEN ~call.retb /\ writes = 0 /\ disk = disk0
        ELSE /\ call.retb /\ writes = 1
             /\ Len(SlideAfter.shapes) = n + 1
             /\ SubSeq(SlideAfter.shapes, 1, n) = SlideBefore.shapes
             /\ SlideAfter.shapes[n + 1].kind = "textbox"
             /\ SlideAfter.shapes[n + 1].text =
                    IF \E i \in 1..Len(pics) : pics[i].descr # ""
                    THEN [i \in 1..Len(pics) |->
                            IF pics[i].descr # "" THEN paths[i] ELSE ExpectedTag(i)]
                    ELSE <<"TEMPLATE SLIDE">>

C19_BadIndexFailsBeforeBackup ==
    [][(/\ call'.op = "delete_slide"
        /\ PptExists(call'.ppt_path)
        /\ ~(0 <= call'.slide_index /\ call'.slide_index < NumSlides(disk))) =>
            /\ call'.pc \in {"load", "raised"}
            /\ call'.pc = "raised" => call'.err.type = "IndexError"
            /\ backups' = backups
            /\ disk' = disk]_vars

\* an earlier call has left backups; the call with a bad index has raised
C19_Witness ==
    /\ call.op = "delete_slide" /\ call.pc = "raised"
    /\ call.err.type = "IndexError"
    /\ call.slide_index = NumSlides(disk)
    /\ backups["latest"][DeckPath].present
    /\ backups["latest"][DeckPath].content # disk

\* C20: in delete_slide the backup files change only in the backup step,
\* which copies the stored file as it was before the deletion, and the
\* document file changes only in the save, after the backup step has
\* returned: at the save the "latest" backup holds the document that is about
\* to be overwritten, and the document saved is shorter by one slide.
C20_BackupPrecedesSave ==
    [][/\ backups' # backups =>
            /\ call.op = "delete_slide" /\ call.pc = "backup"
            /\ disk' = disk /\ disk = disk0
            /\ \A c \in DOMAIN backups :
                    backups'[c] # backups[c] =>
                        /\ backups'[c][DeckPath].present
                        /\ backups'[c][DeckPath].content = disk0
       /\ disk' # disk =>
            /\ call.op = "delete_slide" /\ call.pc = "save"
            /\ backups' = backups
            /\ backups["latest"][DeckPath].present
            /\ backups["latest"][DeckPath].content = disk
            /\ NumSlides(disk') = NumSlides(disk) - 1]_vars

\* a second deletion, ten minutes after the first, has overwritten the
\* backups with the deck as it was before it
C20_Witness ==
    /\ call.op = "delete_slide" /\ call.pc = "done"
    /\ Len(log) = 1 /\ log[1].ok
    /\ clock = 2 * Threshold("5min")
    /\ backups["latest"][DeckPath].content = disk0
    /\ backups["5min"][DeckPath].content = disk0
    /\ NumSlides(disk) = NumSlides(disk0) - 1


\* every call so far was a delete_slide, the indices in ascending order and
\* not all the same
AscendingDeletes ==
    /\ \A j \in 1..Len(log) : log[j].op = "delete_slide"
    /\ \A j \in 1..(Len(log) - 1) : log[j].slide_index <= log[j + 1].slide_index
    /\ \E j \in 1..Len(log) : log[j].slide_index # log[1].slide_index

\* the original indices of the slides that are gone, n the original count
GoneSlides(n) ==
    {i \in 0..(n - 1) : \A k \in 1..NumSlides(disk) : SlidesOf(disk)[k] # NumberedSlide(i)}

\* C22: a delete_slide(k) that returned has removed exactly the slide at
\* index k (the slides below k keep their index, those above move down by
\* one); later calls are not renumbered, so after delete_slide calls made in
\* ascending order of index, two of the indices differing, a call has raised
\* IndexError or a slide that no call named is gone.
C22_DeleteShiftsLaterSlides ==
    /\ (call.op = "delete_slide" /\ call.pc = "done") =>
            LET k == call.slide_index
            IN  /\ NumSlides(disk) = NumSlides(disk0) - 1
                /\ \A i \in 0..(NumSlides(disk) - 1) :
                        /\ i < k => disk.sldIdLst[i + 1] = disk0.sldIdLst[i + 1]
                        /\ i >= k => disk.sldIdLst[i + 1] = disk0.sldIdLst[i + 2]
                /\ \A r \in DOMAIN disk.rels : disk.rels[r] = disk0.rels[r]
                /\ DOMAIN disk.rels = DOMAIN disk0.rels \ {disk0.sldIdLst[k + 1]}
    /\ (call.pc = "idle" /\ Len(log) > 1 /\ AscendingDeletes) =>
            \/ \E j \in 1..Len(log) : ~log[j].ok
            \/ \E i \in GoneSlides(log[1].before) : i \notin DeletedSet

\* slides 0 and 1 deleted in that order from a three-slide deck: slides 0 and
\* 2 are gone, slide 1 is left
C22_Witness ==
    /\ call.pc = "idle" /\ Len(log) = 2 /\ AscendingDeletes
    /\ log[1].ok /\ log[2].ok
    /\ log[1].before = 3
    /\ log[1].slide_index = 0 /\ log[2].slide_index = 1
    /\ SlidesOf(disk) = <<NumberedSlide(1)>>


\* the slide ordering list and the relationship table of prs agree
OrderingMatchesRels(prs) ==
    /\ \A i \in 1..Len(prs.sldIdLst) : prs.sldIdLst[i] \in DOMAIN prs.rels
    /\ \A r \in DOMAIN prs.rels :
            Cardinality({i \in 1..Len(prs.sldIdLst) : prs.sldIdLst[i] = r}) = 1

\* C23: through any sequence of copy (duplicate_slide) and delete_slide
\* calls, in the stored file, and in the loaded presentation once a call's
\* duplication or deletion is done, every entry of the slide ordering list
\* is a live slide relationship and every slide relationship is referenced
\* by exactly one entry.
C23_OrderingMatchesRelationships ==
    /\ OrderingMatchesRels(disk)
    /\ (call.loaded /\ call.pc \in {"strip", "insert", "label", "save", "done"}) =>
            OrderingMatchesRels(call.prs)

\* the first of two slides was deleted and a copy made afterwards: the copy
\* is related under the id the deleted slide had
C23_Witness ==
    /\ call.pc = "idle" /\ Len(log) = 2
    /\ log[1].op = "delete_slide" /\ log[1].ok /\ log[1].slide_index = 0
    /\ log[2].op = "copy_slide_replace_images" /\ log[2].ok
    /\ disk.sldIdLst = <<2, 1>>


\* both processes' calls have returned
BothReturned == call.pc = "done" /\ other.pc = "done"

\* the stored slide at slide_index holds the picture c inserted
HoldsSlideOf(c, slide_index) ==
    /\ ValidIndex(disk, slide_index)
    /\ \E k \in 1..Len(SlideAt(disk, slide_index).shapes) :
            LET shape == SlideAt(disk, slide_index).shapes[k]
            IN  IsPicture(shape) /\ shape.img = c.images[1]

\* no stored slide holds the picture c inserted
SlideLost(c) == \A i \in 0..(NumSlides(disk) - 1) : ~HoldsSlideOf(c, i)

\* C24: two copy_slide_replace_images calls of two processes on one file.
\* Whenever both have returned the same new index (each loaded the file
\* before the other saved it), the file is the document one of them saved:
\* it holds one new slide, that of the last writer, and the other call's
\* slide is lost.  When they returned different indices both slides are
\* stored, each at the index its call returned; and a call that loads the
\* file after the other call returned loads what that call saved, so that
\* serialized calls never return the same index.
C24_LastWriterWins ==
    /\ [](BothReturned =>
            IF call.ret = other.ret
            THEN /\ disk \in {call.prs, other.prs}
                 /\ NumSlides(disk) = call.ret + 1
                 /\ \/ HoldsSlideOf(call, call.ret) /\ SlideLost(other)
                    \/ HoldsSlideOf(other, other.ret) /\ SlideLost(call)
            ELSE /\ HoldsSlideOf(call, call.ret)
                 /\ HoldsSlideOf(other, other.ret)
                 /\ NumSlides(disk) = (IF call.ret > other.ret THEN call.ret ELSE other.ret) + 1)
    /\ [][(call.pc = "load" /\ call'.pc = "resolve" /\ other.pc = "done") =>
                /\ call'.prs = other.prs
                /\ NumSlides(call'.prs) = other.ret + 1]_vars

\* both calls returned the same index and the file holds a /data/a.png
\* slide only: the b.png slide, saved first, was overwritten
C24_Witness ==
    /\ BothReturned
    /\ call.ret = other.ret
    /\ call.images = <<"/data/a.png">> /\ other.images = <<"b.png">>
    /\ HoldsSlideOf(call, call.ret)
    /\ SlideLost(other)


\* a step in which backup_presentation ran: called directly, or by delete_slide
BackupStep ==
    \/ call.pc = "idle" /\ call'.op = "backup_presentation" /\ call'.pc = "done"
    \/ call.op = "delete_slide" /\ call.pc = "backup" /\ call'.pc = "drop"

\* the copy of the file at ppt_path that a backup made now holds
CopyOf(ppt_path) ==
    [present |-> TRUE, content |-> Stored(ppt_path), mtime |-> StoredMtime(ppt_path)]

\* C25: through any sequence of backup_presentation calls on one backup
\* base, each of the five category folders holds at most one file; a call
\* writes a copy of its source, under the source's name, into "latest"
\* always and into a thresholded category exactly when the folder holds no
\* backup or holds one whose modification time is at least the category's
\* threshold (300, 600, 1800, 3600 s) before now.
C25_OneFilePerCategory ==
    /\ [](\A c \in Categories : Cardinality(ExistingBackups(backups[c])) <= 1)
    /\ [][BackupStep =>
            \A c \in Categories :
                LET name == Basename(call'.ppt_path)
                    due == \/ c = "latest"
                           \/ ExistingBackups(backups[c]) = {}
                           \/ \E n \in ExistingBackups(backups[c]) :
                                    clock - backups[c][n].mtime >= Threshold(c)
                IN  /\ backups'[c] = IF due
                                      THEN [backups[c] EXCEPT ![name] = CopyOf(call'.ppt_path)]
                                      ELSE backups[c]
                    /\ call'.op = "backup_presentation" => (c \in call'.created <=> due)]_vars


\* C29: after m >= 2 successive delete_slide calls, all made in less than
\* 300 s into a backup directory that was empty, "latest" holds the document
\* as it was just before the last deletion and "5min", "10min", "30min" and
\* "hourly" hold the document as it was before the first deletion.
C29_OldBackupsKeepTheOriginal ==
    (/\ call.op = "delete_slide" /\ call.pc = "done"
     /\ Len(log) >= 1
     /\ \A j \in 1..Len(log) : log[j].op = "delete_slide" /\ log[j].ok) =>
        /\ backups["latest"][DeckPath].present
        /\ backups["latest"][DeckPath].content = disk0
        /\ NumSlides(disk0) = MaxDeck - Len(log)
        /\ \A c \in Categories \ {"latest"} :
                /\ backups[c][DeckPath].present
                /\ backups[c][DeckPath].content = NumberedDeck(MaxDeck)


\* the images of the pictures among shapes, in shape-tree order
PictureImages(shapes) ==
    LET ps == Pictures(shapes) IN [k \in 1..Len(ps) |-> ps[k].img]

\* the slide the current call works on, in memory
WorkSlide == call.prs.rels[call.new_slide]

\* C27: in copy_slide_replace_images and replace_image_on_existing_slide a
\* failure of the stamping or of the label never raises out of the call:
\* the pictures inserted so far stay on the slide, the loop goes on to the
\* remaining images, and the call ends by saving the document, with every
\* image inserted, and returning normally.
C27_EnrichmentFailuresAreWarnings ==
    ((IsCopy \/ IsReplace) /\ call.warnings > 0) =>
        /\ call.pc \in {"insert", "label", "save", "done"}
        /\ call.pc = "insert" =>
                PictureImages(WorkSlide.shapes) = SubSeq(call.images, 1, call.i - 1)
        /\ call.pc \in {"label", "save", "done"} =>
                PictureImages(WorkSlide.shapes) = call.images
        /\ call.pc = "done" =>
                /\ writes = 1
                /\ disk = call.prs
                /\ IsCopy => call.ret = NumSlides(disk0) /\ NumSlides(disk) = NumSlides(disk0) + 1

\* a returned call with two images: the stamping of the first failed, the
\* second is stamped, the label could not be added
C27_Witness ==
    /\ IsCopy /\ call.pc = "done"
    /\ call.warnings = 2
    /\ call.images = <<"b.png", "/data/a.png">>
    /\ Len(WorkSlide.shapes) = 3
    /\ WorkSlide.shapes[2].descr = "b.png" /\ WorkSlide.shapes[2].title = ""
    /\ WorkSlide.shapes[3].descr = "/data/a.png" /\ WorkSlide.shapes[3].title = "a.png"
    /\ disk = call.prs



\* the backup taken before a deletion failed in the current delete_slide call
DeleteBackupFailed == call.op = "delete_slide" /\ call.err = OSError

\* C21: when the backup before a deletion fails, the exception leaves
\* delete_slide (and, nothing catching it, ends the batch run) and the
\* document file is as it was before the call, the slide still in it; when
\* the backup of an existing output file fails in the batch script, the run
\* only notes a warning and goes on to copy the template.
C21_BackupFailurePropagatesFromDelete ==
    /\ [](DeleteBackupFailed =>
            /\ call.pc = "raised"
            /\ writes = 0
            /\ Stored(call.ppt_path) = disk0
            /\ ValidIndex(disk0, call.slide_index)
            /\ batch.pc \in {"delete", "crashed"}
            /\ batch.pc = "crashed" => batch.error = OSError /\ batch.code = 1)
    /\ [][("backup failed" \in batch'.warnings /\ ~("backup failed" \in batch.warnings)) =>
            /\ batch'.pc = "copy"
            /\ batch'.code = 0
            /\ out' = out /\ disk' = disk]_vars
    /\ []("backup failed" \in batch.warnings =>
            \/ batch.pc = "copy"
            \/ batch.ppt_file = OutPath /\ out.present
            \/ batch.pc = "exit" /\ batch.k = 0)

\* a run that went on after the backup of the old output file failed,
\* deleted a slide of the output file, and ended when the backup before the
\* next deletion failed, that slide still in the file
C21_Witness ==
    /\ batch.pc = "crashed" /\ batch.error = OSError
    /\ "backup failed" \in batch.warnings
    /\ DeleteBackupFailed
    /\ NumSlides(out.content) = NumSlides(BatchDeck) - 1
    /\ out.content = disk0
    /\ disk = BatchDeck


\* some image of some entry of the configuration does not exist
MissingSomewhere ==
    \E i \in 1..Len(batch.config.images) :
        \E n \in 1..Len(batch.config.images[i].files) :
            ~ImageExists(spec_paths(batch.config.images[i], batch.config.base_dir)[n])

\* the entries before place k of the creation loop that are empty lists
EmptyEntriesBefore(k) ==
    {i \in 2..(k - 1) : batch.config.images[i].files = <<>>}

ResultsWith(ok) == {r \in 1..Len(batch.results) : batch.results[r].ok = ok}

\* the run is in or past the creation loop
CreationBegun == batch.k >= 2

\* C26: a run whose configuration names a missing image, in any entry of any
\* kind, ends with exit code 1 at the pre-validation at the latest, no
\* delete_slide or copy call made, no slide removed or added in either file;
\* otherwise, in the creation loop, every entry reached so far was either
\* skipped as an empty list or tried, each failed try is counted in
\* error_count and recorded, the loop never ends the run, and the run exits
\* only after the last entry, with code 1 exactly when an error was counted.
C26_PrevalidationIsExhaustive ==
    /\ (batch.pc # "none" /\ MissingSomewhere) =>
            /\ batch.pc \in {"output", "copy", "template", "prevalidate", "exit"}
            /\ batch.pc = "exit" => batch.code = 1
            /\ ncalls = 0 /\ call = NoCall
            /\ disk = BatchDeck
            /\ out.present => out.content \in {BatchDeck, OldOutput.content}
    /\ (batch.pc # "none" /\ ~MissingSomewhere /\ CreationBegun) =>
            /\ batch.pc \in {"create", "exit"}
            /\ call.pc = "idle" =>
                    Len(batch.results) + Cardinality(EmptyEntriesBefore(batch.k))
                        = batch.k - 2
            /\ batch.error_count = Cardinality(ResultsWith(FALSE))
            /\ batch.success_count = Cardinality(ResultsWith(TRUE))
            /\ \A r \in ResultsWith(FALSE) : batch.results[r].err # NoErr
            /\ batch.pc = "exit" =>
                    /\ batch.k = Len(batch.config.images) + 1
                    /\ batch.code = IF batch.error_count > 0 THEN 1 ELSE 0

\* a finished run of three entries: the second (two images for a template
\* with one picture) failed and was counted, the third was still inserted
C26_Witness ==
    /\ batch.pc = "exit" /\ batch.code = 1
    /\ ~MissingSomewhere
    /\ Len(batch.config.images) = 3
    /\ Len(batch.results) = 2
    /\ ~batch.results[1].ok /\ batch.results[1].err.type = "ValueError"
    /\ batch.results[2].ok
    /\ batch.error_count = 1 /\ batch.success_count = 1
    /\ NumSlides(Stored(batch.ppt_file)) = batch.results[2].ret + 1


\* the configured template index and the preserved indices of the run
TemplateIndex == batch.config.template_slide

Preserved(i) == i \in batch.config.preserve_slides

\* the slide now at the template index of the working file is the slide
\* that was there when the run began
TemplateInPlace ==
    /\ ValidIndex(Stored(batch.ppt_file), TemplateIndex)
    /\ SlideAt(Stored(batch.ppt_file), TemplateIndex) = SlideAt(BatchDeck, TemplateIndex)

\* every copy call of the creation loop names the configured index
CopiesTheConfiguredIndex ==
    (batch.pc = "create" /\ IsCopy) =>
        /\ call.slide_index = TemplateIndex
        /\ call.ppt_path = batch.ppt_file
        /\ call.pc \in {"strip", "insert", "label", "save", "done"} =>
                SlideAt(call.prs, TemplateIndex) = SlideAt(disk0, TemplateIndex)

\* C28 as stated: the creation loop copies the slide at the configured
\* index, which is the original template exactly when every index below
\* template_slide is preserved.
C28_TemplateIffLowerPreserved ==
    /\ CopiesTheConfiguredIndex
    /\ batch.pc = "create" =>
            (TemplateInPlace <=> \A i \in 0..(TemplateIndex - 1) : Preserved(i))

\* C28, amended: the creation loop copies the slide at the configured
\* index, which is the original template exactly when template_slide and
\* every index below it are preserved.
C28_TemplateIffItAndLowerPreserved ==
    /\ CopiesTheConfiguredIndex
    /\ batch.pc = "create" =>
            (TemplateInPlace <=> \A i \in 0..TemplateIndex : Preserved(i))

\* template_slide 1 not preserved, slides 0 and 2 preserved: the template was
\* deleted, the slide that followed it is at index 1 and was duplicated
C28_Witness ==
    /\ batch.pc = "create"
    /\ TemplateIndex = 1 /\ ~Preserved(1) /\ Preserved(0)
    /\ ~TemplateInPlace
    /\ ValidIndex(Stored(batch.ppt_file), 1)
    /\ SlideAt(Stored(batch.ppt_file), 1) = SlideAt(BatchDeck, 2)
    /\ Len(batch.results) = 1
    /\ batch.results[1].ok
    /\ Len(Pictures(SlideAt(Stored(batch.ppt_file), batch.results[1].ret).shapes)) = 2


\* a run that reached its end with every image found and every creation
\* succeeding: exit code 0
CleanRun == batch.pc = "exit" /\ batch.code = 0

\* the preserved indices that exist in the deck
KeptSlides == {i \in 0..(NumSlides(BatchDeck) - 1) : Preserved(i)}

FinalDeck == Stored(batch.ppt_file)

\* the slides from index first on hold, one each and in order, the images
\* of the entries of images at the places listed in entries
AppendedInOrder(first, entries) ==
    \A j \in 1..Len(entries) :
        /\ ValidIndex(FinalDeck, first + j - 1)
        /\ PictureImages(SlideAt(FinalDeck, first + j - 1).shapes)
                = spec_paths(batch.config.images[entries[j]], batch.config.base_dir)

\* the kept slides are the first slides of the final deck, in their order
KeptSlidesFirst ==
    \A j \in 1..Cardinality(KeptSlides) :
        /\ ValidIndex(FinalDeck, j - 1)
        /\ SlideAt(FinalDeck, j - 1) = SlideAt(BatchDeck, Ascending(KeptSlides)[j])

\* the places in images, after the first, of the entries that are not empty
\* lists
NonEmptyEntries ==
    Ascending({i \in 2..Len(batch.config.images) : batch.config.images[i].files # <<>>})

\* C30 as stated: a clean run ends with the kept slides followed by one new
\* slide per entry of images[1:], in order; the deck has
\* (kept slides) + len(images) - 1 slides; the first entry is not inserted.
C30_OneSlidePerRemainingEntry ==
    CleanRun =>
        /\ NumSlides(FinalDeck) = Cardinality(KeptSlides) + Len(batch.config.images) - 1
        /\ KeptSlidesFirst
        /\ AppendedInOrder(Cardinality(KeptSlides),
                           [j \in 1..(Len(batch.config.images) - 1) |-> j + 1])

\* C30, amended: a clean run ends with the kept slides followed by one new
\* slide per entry of images[1:] that is not an empty list, in order; the
\* deck has (kept slides) + (number of such entries) slides; the first entry
\* is not inserted.
C30_OneSlidePerNonEmptyEntry ==
    CleanRun =>
        /\ NumSlides(FinalDeck) = Cardinality(KeptSlides) + Len(NonEmptyEntries)
        /\ KeptSlidesFirst
        /\ AppendedInOrder(Cardinality(KeptSlides), NonEmptyEntries)
        /\ batch.success_count = Len(NonEmptyEntries)
        /\ \A j \in 1..Len(batch.results) :
                /\ batch.results[j].k = NonEmptyEntries[j]
                /\ batch.results[j].ret = Cardinality(KeptSlides) + j - 1

\* a clean run over three entries, the second an empty list: two slides
\* kept, one slide added for the third entry
C30_Witness ==
    /\ CleanRun
    /\ Len(batch.config.images) = 3
    /\ "empty list" \in batch.warnings
    /\ Cardinality(KeptSlides) = 2
    /\ NumSlides(FinalDeck) = 3
    /\ PictureImages(SlideAt(FinalDeck, 2).shapes) = <<"b.png">>

====
